---- MODULE Spec2Model ----
(***************************************************************************)
(* State-machine model of the Hikvision ISAPI client                      *)
(* (custom_components/hikvision_next/isapi/isapi.py) and of the Home      *)
(* Assistant device wrapper (hikvision_device.py, coordinator.py).        *)
(*                                                                         *)
(* Eight specifications share the variables: SpecPure applies the pure     *)
(* functions to bounded inputs, SpecTransport follows request() and        *)
(* handle_exception, SpecDiscovery the setup from get_hardware_info to     *)
(* init_coordinators, SpecToggle the calls of set_event_enabled_state,     *)
(* SpecSnapshot those of get_camera_image, SpecNotify the notification     *)
(* POSTs of EventNotificationsView, SpecRace two concurrent calls of       *)
(* set_event_enabled_state for mutually exclusive events, SpecReauth the   *)
(* polling loops against a device that answers every request with 401.     *)
(*                                                                         *)
(* Text whose letter case matters (event types, XML slugs) is a sequence   *)
(* of one-character strings, so that str.lower() and the capitalisation    *)
(* of a slug are computed, not assumed.  Text(s) turns such a sequence     *)
(* into a TLA+ string, used as a dictionary key or a URL segment.          *)
(***************************************************************************)
EXTENDS Integers, Sequences, FiniteSets, TLC

(***************************************************************************)
(* Text                                                                    *)
(***************************************************************************)
UpperChars == <<"A","B","C","D","E","F","G","H","I","J","K","L","M",
                "N","O","P","Q","R","S","T","U","V","W","X","Y","Z">>

LowerChars == <<"a","b","c","d","e","f","g","h","i","j","k","l","m",
                "n","o","p","q","r","s","t","u","v","w","x","y","z">>

\* one character of str.lower()
LowerChar(c) ==
    IF \E i \in DOMAIN UpperChars : UpperChars[i] = c
    THEN LowerChars[CHOOSE i \in DOMAIN UpperChars : UpperChars[i] = c]
    ELSE c

\* one character of str.upper()
UpperChar(c) ==
    IF \E i \in DOMAIN LowerChars : LowerChars[i] = c
    THEN UpperChars[CHOOSE i \in DOMAIN LowerChars : LowerChars[i] = c]
    ELSE c

\* str.lower()
Lower(s) == [i \in DOMAIN s |-> LowerChar(s[i])]

\* str.upper()
Upper(s) == [i \in DOMAIN s |-> UpperChar(s[i])]

\* the characters of s joined into one string
RECURSIVE Text(_)
Text(s) == IF s = <<>> THEN "" ELSE Head(s) \o Text(Tail(s))

\* a text that is absent (None) or empty: `not text` is true of both
NoText == <<>>

\* the url of an EventInfo whose event id get_event_url does not know (None)
NoUrl == "None"

(***************************************************************************)
(* isapi/const.py                                                          *)
(***************************************************************************)
EVENT_BASIC == "basic"
EVENT_IO == "io"
EVENT_SMART == "smart"
EVENT_PIR == "pir"

\* one entry of EVENTS; an absent "mutex" reads as FALSE, an absent node
\* override as the empty text
EventEntry(type, label, slug, mutex, direct_node, proxied_node) ==
    [type |-> type, label |-> label, slug |-> slug, mutex |-> mutex,
     direct_node |-> direct_node, proxied_node |-> proxied_node]

EVENTS ==
    [id \in {"motiondetection", "tamperdetection", "videoloss",
             "scenechangedetection", "fielddetection", "linedetection",
             "regionentrance", "regionexiting", "io", "pir"} |->
       CASE id = "motiondetection" ->
              EventEntry(EVENT_BASIC, "Motion",
                <<"m","o","t","i","o","n","D","e","t","e","c","t","i","o","n">>,
                TRUE, NoText, NoText)
         [] id = "tamperdetection" ->
              EventEntry(EVENT_BASIC, "Video Tampering",
                <<"t","a","m","p","e","r","D","e","t","e","c","t","i","o","n">>,
                FALSE, NoText, NoText)
         [] id = "videoloss" ->
              EventEntry(EVENT_BASIC, "Video Loss",
                <<"v","i","d","e","o","L","o","s","s">>,
                FALSE, NoText, NoText)
         [] id = "scenechangedetection" ->
              EventEntry(EVENT_SMART, "Scene Change",
                <<"S","c","e","n","e","C","h","a","n","g","e",
                  "D","e","t","e","c","t","i","o","n">>,
                TRUE, NoText, NoText)
         [] id = "fielddetection" ->
              EventEntry(EVENT_SMART, "Intrusion",
                <<"F","i","e","l","d","D","e","t","e","c","t","i","o","n">>,
                TRUE, NoText, NoText)
         [] id = "linedetection" ->
              EventEntry(EVENT_SMART, "Line Crossing",
                <<"L","i","n","e","D","e","t","e","c","t","i","o","n">>,
                TRUE, NoText, NoText)
         [] id = "regionentrance" ->
              EventEntry(EVENT_SMART, "Region Entrance",
                <<"r","e","g","i","o","n","E","n","t","r","a","n","c","e">>,
                FALSE, NoText, NoText)
         [] id = "regionexiting" ->
              EventEntry(EVENT_SMART, "Region Exiting",
                <<"r","e","g","i","o","n","E","x","i","t","i","n","g">>,
                FALSE, NoText, NoText)
         [] id = "io" ->
              EventEntry(EVENT_IO, "Alarm Input",
                <<"i","n","p","u","t","s">>,
                FALSE,
                <<"I","O","I","n","p","u","t","P","o","r","t">>,
                <<"I","O","P","r","o","x","y","I","n","p","u","t","P","o","r","t">>)
         [] id = "pir" ->
              EventEntry(EVENT_PIR, "PIR",
                <<"W","L","A","l","a","r","m","/","P","I","R">>,
                FALSE,
                <<"P","I","R","A","l","a","r","m">>,
                NoText)]

\* the keys of EVENTS_ALTERNATE_ID as the table spells them
AliasVmd == <<"v","m","d">>
AliasThermometry == <<"t","h","e","r","m","o","m","e","t","r","y">>
AliasShelterAlarm == <<"s","h","e","l","t","e","r","a","l","a","r","m">>
AliasVMDHumanVehicle ==
    <<"V","M","D","H","u","m","a","n","V","e","h","i","c","l","e">>

EVENTS_ALTERNATE_ID ==
    [k \in {Text(AliasVmd), Text(AliasThermometry), Text(AliasShelterAlarm),
            Text(AliasVMDHumanVehicle)} |->
       IF k = Text(AliasShelterAlarm) THEN "tamperdetection"
       ELSE "motiondetection"]

MUTEX_ALTERNATE_ID == [k \in {"motiondetection"} |-> Text(AliasVMDHumanVehicle)]

(***************************************************************************)
(* isapi/utils.py                                                          *)
(***************************************************************************)
\* str_to_bool on a text given as a character sequence (or None)
str_to_bool(value) ==
    IF value # NoText THEN Text(Lower(value)) = "true" ELSE FALSE

bool_to_str(value) == IF value THEN "true" ELSE "false"

\* the values of a parsed reply: a text, None, a list, a mapping
StrV(text) == [kind |-> "str", text |-> text]

NoneV == [kind |-> "none"]

ListV(items) == [kind |-> "list", items |-> items]

DictV(items) == [kind |-> "dict", items |-> items]

\* path.split("."): the segments of a path given as a character sequence
RECURSIVE SplitDots(_, _)
SplitDots(path, segment) ==
    IF path = <<>> THEN <<Text(segment)>>
    ELSE IF Head(path) = "." THEN <<Text(segment)>> \o SplitDots(Tail(path), <<>>)
    ELSE SplitDots(Tail(path), Append(segment, Head(path)))

\* the lambda of deep_get: one step of the reduce
deep_get_step(d, key, default) ==
    IF d.kind = "dict"
    THEN IF key \in DOMAIN d.items THEN d.items[key] ELSE default
    ELSE default

\* reduce(lambda, keys, d)
RECURSIVE deep_get_reduce(_, _, _)
deep_get_reduce(d, keys, default) ==
    IF keys = <<>> THEN d
    ELSE deep_get_reduce(deep_get_step(d, Head(keys), default), Tail(keys),
                         default)

\* deep_get returning what the reduce found, without the one-element list
deep_get_unwrapped(dictionary, path, default) ==
    deep_get_reduce(dictionary, SplitDots(path, <<>>), default)

\* deep_get(dictionary, path, default)
deep_get(dictionary, path, default) ==
    LET result == deep_get_reduce(dictionary, SplitDots(path, <<>>), default)
    IN  IF default = ListV(<<>>) /\ result.kind # "list"
        THEN ListV(<<result>>)
        ELSE result

(***************************************************************************)
(* ISAPIClient.get_event_url                                               *)
(***************************************************************************)
\* get_event_url with the proxied and the direct path of a basic event
\* exchanged
get_event_url_swapped(event_id, channel_id, io_port_id, is_proxy) ==
    IF event_id \notin DOMAIN EVENTS THEN NoUrl
    ELSE LET event_type == EVENTS[event_id].type
             slug == Text(EVENTS[event_id].slug)
         IN  IF event_type = EVENT_BASIC
             THEN IF ~is_proxy
                  THEN "ContentMgmt/InputProxy/channels/" \o ToString(channel_id)
                         \o "/video/" \o slug
                  ELSE "System/Video/inputs/channels/" \o ToString(channel_id)
                         \o "/" \o slug
             ELSE IF event_type = EVENT_IO
             THEN IF is_proxy
                  THEN "ContentMgmt/IOProxy/" \o slug \o "/" \o ToString(io_port_id)
                  ELSE "System/IO/" \o slug \o "/" \o ToString(io_port_id)
             ELSE IF event_type = EVENT_PIR
             THEN slug
             ELSE "Smart/" \o slug \o "/" \o ToString(channel_id)

get_event_url(event_id, channel_id, io_port_id, is_proxy) ==
    IF event_id \notin DOMAIN EVENTS THEN NoUrl
    ELSE LET event_type == EVENTS[event_id].type
             slug == Text(EVENTS[event_id].slug)
         IN  IF event_type = EVENT_BASIC
             THEN IF is_proxy
                  THEN "ContentMgmt/InputProxy/channels/" \o ToString(channel_id)
                         \o "/video/" \o slug
                  ELSE "System/Video/inputs/channels/" \o ToString(channel_id)
                         \o "/" \o slug
             ELSE IF event_type = EVENT_IO
             THEN IF is_proxy
                  THEN "ContentMgmt/IOProxy/" \o slug \o "/" \o ToString(io_port_id)
                  ELSE "System/IO/" \o slug \o "/" \o ToString(io_port_id)
             ELSE IF event_type = EVENT_PIR
             THEN slug
             ELSE "Smart/" \o slug \o "/" \o ToString(channel_id)

\* slug[0].upper() + slug[1:]
Capitalize(s) == <<UpperChar(Head(s))>> \o Tail(s)

\* ISAPIClient._get_event_state_node: the XML key holding the event's state
get_event_state_node(event) ==
    LET entry == EVENTS[event.id]
        s1 == IF event.is_proxy /\ entry.proxied_node # NoText
              THEN entry.proxied_node ELSE entry.slug
        s2 == IF ~event.is_proxy /\ entry.direct_node # NoText
              THEN entry.direct_node ELSE s1
    IN  Text(Capitalize(s2))

(***************************************************************************)
(* Bounds of the model                                                     *)
(***************************************************************************)
\* largest video channel id and I/O port id a device reply carries
MaxChannel == 2

MaxPort == 2

\* a spelling of an event type has at most MaxUpper upper-case letters, or
\* at most MaxUpper lower-case ones, or is the spelling of the alias table
MaxUpper == 1

(***************************************************************************)
(* Device replies: event triggers and alert notifications                  *)
(***************************************************************************)
\* w with exactly the letters at the positions U in upper case
Cased(w, U) ==
    [i \in DOMAIN w |-> IF i \in U THEN UpperChar(w[i]) ELSE LowerChar(w[i])]

Spellings(w) ==
    {w} \cup {Cased(w, U) : U \in {V \in SUBSET DOMAIN w :
                                     \/ Cardinality(V) <= MaxUpper
                                     \/ Cardinality(V) >= Len(w) - MaxUpper}}

AliasKeys == {AliasVmd, AliasThermometry, AliasShelterAlarm, AliasVMDHumanVehicle}

\* event types a device sends that are no alias: canonical ids and one id
\* the event table does not hold
PlainEventTypes ==
    { <<"i","o">>, <<"P","I","R">>,
      <<"f","i","e","l","d","d","e","t","e","c","t","i","o","n">>,
      <<"v","i","d","e","o","l","o","s","s">>,
      <<"f","a","c","e","d","e","t","e","c","t","i","o","n">> }

EventTypeTexts ==
    UNION {Spellings(w) : w \in AliasKeys} \cup PlainEventTypes \cup {NoText}

\* one EventTrigger of Event/triggers; a missing channel or port id reads 0
\* (int(event_trigger.get(key, 0))), a missing eventType reads NoText
Trigger(eventType, ch, dynCh, io, dynIo, notifications) ==
    [eventType |-> eventType,
     videoInputChannelID |-> ch, dynVideoInputChannelID |-> dynCh,
     inputIOPortID |-> io, dynInputIOPortID |-> dynIo,
     notifications |-> notifications]

\* the notificationMethod values of a trigger's EventTriggerNotificationList
NotificationLists == { <<>>, <<"center">>, <<"email">>, <<"email", "center">> }

TriggerPool ==
    { Trigger(t, c[1], c[2], p[1], p[2], n) :
        t \in EventTypeTexts,
        c \in {<<0, 0>>, <<1, 0>>, <<0, MaxChannel>>},
        p \in {<<0, 0>>, <<1, 0>>, <<0, MaxPort>>},
        n \in NotificationLists }

\* ISAPIClient.get_supported_events.create_event_info: the EventInfo of one
\* trigger, or NoEvent when the function returns None
NoEvent == [none |-> TRUE]

EventInfo(id, channel_id, io_port_id, url, is_proxy, notifications) ==
    [id |-> id, channel_id |-> channel_id, io_port_id |-> io_port_id,
     unique_id |-> "None", url |-> url, is_proxy |-> is_proxy,
     disabled |-> FALSE, notifications |-> notifications]

\* the alias translation of create_event_info: lower-case, then the table
DiscoveredEventId(event_type) ==
    LET event_id == Text(Lower(event_type))
    IN  IF event_id \in DOMAIN EVENTS_ALTERNATE_ID
        THEN EVENTS_ALTERNATE_ID[event_id] ELSE event_id

\* create_event_info returning None for an event id the table does not hold
create_event_info_skips_unknown(event_trigger, pir_supported) ==
    IF event_trigger.eventType = NoText THEN NoEvent
    ELSE
    LET event_id == DiscoveredEventId(event_trigger.eventType)
        io0 == event_trigger.inputIOPortID
        io_port == IF event_id # EVENT_IO THEN 0
                   ELSE IF io0 # 0 THEN io0 ELSE event_trigger.dynInputIOPortID
        ch0 == event_trigger.videoInputChannelID
        channel_id == IF event_id = EVENT_IO THEN 0
                      ELSE IF ch0 # 0 THEN ch0
                      ELSE event_trigger.dynVideoInputChannelID
        is_proxy == IF event_id = EVENT_IO THEN io0 = 0 /\ io_port > 0
                    ELSE ch0 = 0 /\ channel_id > 0
    IN  IF event_id = EVENT_PIR /\ ~pir_supported THEN NoEvent
        ELSE IF event_id \notin DOMAIN EVENTS THEN NoEvent
        ELSE EventInfo(event_id, channel_id, io_port,
                       get_event_url(event_id, channel_id, io_port, is_proxy),
                       is_proxy, event_trigger.notifications)

\* ISAPIClient.get_supported_events.create_event_info
create_event_info(event_trigger, pir_supported) ==
    IF event_trigger.eventType = NoText THEN NoEvent
    ELSE
    LET event_id == DiscoveredEventId(event_trigger.eventType)
        io0 == event_trigger.inputIOPortID
        io_port == IF event_id # EVENT_IO THEN 0
                   ELSE IF io0 # 0 THEN io0 ELSE event_trigger.dynInputIOPortID
        ch0 == event_trigger.videoInputChannelID
        channel_id == IF event_id = EVENT_IO THEN 0
                      ELSE IF ch0 # 0 THEN ch0
                      ELSE event_trigger.dynVideoInputChannelID
        is_proxy == IF event_id = EVENT_IO THEN io0 = 0 /\ io_port > 0
                    ELSE ch0 = 0 /\ channel_id > 0
    IN  IF event_id = EVENT_PIR /\ ~pir_supported THEN NoEvent
        ELSE EventInfo(event_id, channel_id, io_port,
                       get_event_url(event_id, channel_id, io_port, is_proxy),
                       is_proxy, event_trigger.notifications)

\* one EventNotificationAlert; the keys channelID and dynChannelID are
\* present or not, a missing eventType or relationEvent is NoText
AlertKeys == { {}, {"channelID"}, {"dynChannelID"}, {"channelID", "dynChannelID"} }

AlertPool ==
    { [eventType |-> t, relationEvent |-> r, inputIOPortID |-> p, ids |-> c] :
        t \in EventTypeTexts \cup {<<"d","u","r","a","t","i","o","n">>},
        r \in {NoText, <<"V","M","D">>,
               <<"l","i","n","e","d","e","t","e","c","t","i","o","n">>},
        p \in {0, 1},
        c \in UNION { [K -> 1..MaxChannel] : K \in AlertKeys } }

AlertInfo(channel_id, io_port_id, event_id) ==
    [raised |-> "none", channel_id |-> channel_id, io_port_id |-> io_port_id,
     event_id |-> event_id]

Raised(kind) == [raised |-> kind]

\* the alias translation of parse_event_notification
AlertEventId(event_type) ==
    LET event_id == Text(Lower(event_type))
    IN  IF event_id \in DOMAIN EVENTS_ALTERNATE_ID
        THEN EVENTS_ALTERNATE_ID[event_id] ELSE event_id

\* ISAPIClient.parse_event_notification on the parsed alert
parse_event_notification(alert) ==
    LET duration == alert.eventType = NoText
                    \/ Text(alert.eventType) = "duration"
        raw == IF duration THEN alert.relationEvent ELSE alert.eventType
        event_id == AlertEventId(raw)
        channel_id == IF "channelID" \in DOMAIN alert.ids THEN alert.ids["channelID"]
                      ELSE IF "dynChannelID" \in DOMAIN alert.ids
                      THEN alert.ids["dynChannelID"] ELSE 0
    IN  IF raw = NoText THEN Raised("KeyError")
        ELSE IF event_id \notin DOMAIN EVENTS THEN Raised("KeyError")
        ELSE AlertInfo(channel_id, alert.inputIOPortID, event_id)

(***************************************************************************)
(* State                                                                   *)
(***************************************************************************)
VARIABLES
    call,                   \* the function applied and its arguments
    ret,                    \* its result, once applied
    auth_method,            \* ISAPIClient._auth_method
    pending_initialization, \* ISAPIClient.pending_initialization
    auth_token_expired,     \* HikvisionDevice.auth_token_expired
    reauth_started,         \* entry.async_start_reauth has been called
    poll_left,              \* items the running EventsCoordinator poll still fetches
    reply,                  \* the request() call of the last step, if any
    handled,                \* the handle_exception call of the last step, if any
    chunks,                 \* the request_bytes() call of the last step, if any
    hw_pc,                  \* how far get_hardware_info and the setup have come
    rtsp_port_forced,       \* ISAPIClient.rtsp_port_forced, 0 when not configured
    device_info,            \* ISAPIClient.device_info
    capabilities,           \* ISAPIClient.capabilities
    system_capabilities,    \* the DeviceCap document get_hardware_info holds
    cameras,                \* ISAPIClient.cameras
    supported_events,       \* ISAPIClient.supported_events
    events_info,            \* HikvisionDevice.events_info
    protocols,              \* ISAPIClient.protocols
    docs,                   \* the device's event documents, by URL
    tasks,                  \* the running set_event_enabled_state calls
    streams,                \* use_alternate_picture_url of each CameraStreamInfo
    snap,                   \* the running get_camera_image call
    entries,                \* the config entries of the integration
    sensors,                \* the host's state of each registered binary sensor
    bus,                    \* the events fired on the host's bus
    posted                  \* the last notification POST and its response

pureVars == <<call, ret>>

transportVars ==
    <<auth_method, pending_initialization, auth_token_expired, reauth_started,
      poll_left, reply, handled>>

discoveryVars ==
    <<hw_pc, rtsp_port_forced, device_info, capabilities, system_capabilities,
      cameras, supported_events, events_info, protocols>>

toggleVars == <<docs, tasks>>

streamVars == <<chunks>>

snapshotVars == <<streams, snap>>

notifyVars == <<entries, sensors, bus, posted>>

vars ==
    <<pureVars, transportVars, streamVars, discoveryVars, toggleVars,
      snapshotVars, notifyVars>>

\* what the actions of one part of the model leave alone
notPure ==
    <<transportVars, streamVars, discoveryVars, toggleVars, snapshotVars,
      notifyVars>>

notTransport ==
    <<pureVars, discoveryVars, toggleVars, snapshotVars, notifyVars>>

notDiscovery == <<pureVars, streamVars, toggleVars, snapshotVars, notifyVars>>

notToggle == <<pureVars, streamVars, discoveryVars, snapshotVars, notifyVars>>

notSnapshot == <<pureVars, streamVars, discoveryVars, toggleVars, notifyVars>>

notNotify ==
    <<pureVars, transportVars, streamVars, discoveryVars, toggleVars,
      snapshotVars>>

(***************************************************************************)
(* The pure functions of the client applied to every bounded input         *)
(***************************************************************************)
NotApplied == [applied |-> FALSE]

Applied(value) == [applied |-> TRUE, value |-> value]

UrlCalls ==
    { [op |-> "get_event_url", event_id |-> e, channel_id |-> c,
       io_port_id |-> p, is_proxy |-> x] :
        e \in DOMAIN EVENTS \cup {"vmdhumanvehicle"},
        c \in 0..MaxChannel, p \in 0..MaxPort, x \in BOOLEAN }

TriggerCalls ==
    { [op |-> "create_event_info", event_trigger |-> t, pir_supported |-> s] :
        t \in TriggerPool, s \in BOOLEAN }

AlertCalls ==
    { [op |-> "parse_event_notification", alert |-> a] : a \in AlertPool }

ApplyGetEventUrl ==
    /\ call.op = "get_event_url" /\ ~ret.applied
    /\ ret' = Applied(get_event_url(call.event_id, call.channel_id,
                                    call.io_port_id, call.is_proxy))
    /\ UNCHANGED <<call, notPure>>

ApplyCreateEventInfo ==
    /\ call.op = "create_event_info" /\ ~ret.applied
    /\ ret' = Applied(create_event_info(call.event_trigger, call.pir_supported))
    /\ UNCHANGED <<call, notPure>>

ApplyParseEventNotification ==
    /\ call.op = "parse_event_notification" /\ ~ret.applied
    /\ ret' = Applied(parse_event_notification(call.alert))
    /\ UNCHANGED <<call, notPure>>

(***************************************************************************)
(* Transport: ISAPIClient.request and HikvisionDevice.handle_exception     *)
(***************************************************************************)
UNAUTHORIZED == 401

FORBIDDEN == 403

\* the status codes a device answers with
HttpStatuses == {200, UNAUTHORIZED, FORBIDDEN, 404, 500}

IsSuccess(status) == status \in 200..299

\* _auth_method before detection
NoAuth == "None"

\* the replies to the unauthenticated WWW-Authenticate probe: a status and
\* the schemes its WWW-Authenticate header names
Probes ==
    { [status |-> st, www |-> w] :
        st \in {200, UNAUTHORIZED}, w \in SUBSET {"Basic", "Digest"} }

\* ISAPIClient._detect_auth_method: the scheme after the probe
detect_auth_method(auth, probe) ==
    IF probe.status = UNAUTHORIZED
    THEN IF "Basic" \in probe.www THEN "Basic"
         ELSE IF "Digest" \in probe.www THEN "Digest"
         ELSE auth
    ELSE auth

\* request() running the detection before every call
auth_for_request_redetects(auth, probe) == detect_auth_method(auth, probe)

\* the scheme request() sends with: detection runs only without a cached one
auth_for_request(auth, probe) ==
    IF auth = NoAuth THEN detect_auth_method(auth, probe) ELSE auth

\* request() testing pending_initialization before the status: a 401 is
\* swallowed during initialization too
request_outcome_pending_first(status, pending) ==
    IF IsSuccess(status) THEN "result"
    ELSE IF pending THEN "empty"
    ELSE IF status = UNAUTHORIZED THEN "ISAPIUnauthorizedError"
    ELSE IF status = FORBIDDEN THEN "ISAPIForbiddenError"
    ELSE "HTTPStatusError"

\* request() raising every 403, whatever pending_initialization is
request_outcome_forbidden_always(status, pending) ==
    IF IsSuccess(status) THEN "result"
    ELSE IF status = UNAUTHORIZED THEN "ISAPIUnauthorizedError"
    ELSE IF status = FORBIDDEN THEN "ISAPIForbiddenError"
    ELSE IF pending THEN "empty"
    ELSE "HTTPStatusError"

\* ISAPIClient.request: what the call does with a reply of this status
\*   "result"  the parsed reply is returned
\*   "empty"   {} is returned
\*   otherwise the exception raised
request_outcome(status, pending) ==
    IF IsSuccess(status) THEN "result"
    ELSE IF status = UNAUTHORIZED THEN "ISAPIUnauthorizedError"
    ELSE IF status = FORBIDDEN /\ ~pending THEN "ISAPIForbiddenError"
    ELSE IF pending THEN "empty"
    ELSE "HTTPStatusError"

IsException(outcome) == outcome \notin {"result", "empty"}

NoReply == [sent |-> FALSE]

\* the record of one request(): whether it ran the detection probe, the
\* scheme it was sent with, the status and what the call did with it
Reply(status, probe) ==
    [sent |-> TRUE,
     probed |-> auth_method = NoAuth,
     auth |-> auth_for_request(auth_method, probe),
     status |-> status,
     pending |-> pending_initialization,
     outcome |-> request_outcome(status, pending_initialization)]

NoChunks == [sent |-> FALSE]

\* the record of one request_bytes(): whether it ran the detection probe,
\* the scheme it was sent with and the status, which the call does not read
Chunks(status, probe) ==
    [sent |-> TRUE,
     probed |-> auth_method = NoAuth,
     auth |-> auth_for_request(auth_method, probe),
     status |-> status]

NotHandled == [called |-> FALSE]

\* handle_exception keeping the cached scheme on the first 401
handle_exception_keeps_scheme(ex, expired, auth, reauth) ==
    IF ex = "ISAPIUnauthorizedError"
    THEN IF ~expired
         THEN [auth_token_expired |-> TRUE, auth_method |-> auth,
               reauth_started |-> reauth]
         ELSE [auth_token_expired |-> FALSE, auth_method |-> auth,
               reauth_started |-> TRUE]
    ELSE [auth_token_expired |-> expired, auth_method |-> auth,
          reauth_started |-> reauth]

\* HikvisionDevice.handle_exception(ex) as a change of
\* (auth_token_expired, _auth_method, reauth started)
handle_exception(ex, expired, auth, reauth) ==
    IF ex = "ISAPIUnauthorizedError"
    THEN IF ~expired
         THEN [auth_token_expired |-> TRUE, auth_method |-> NoAuth,
               reauth_started |-> reauth]
         ELSE [auth_token_expired |-> FALSE, auth_method |-> auth,
               reauth_started |-> TRUE]
    ELSE [auth_token_expired |-> expired, auth_method |-> auth,
          reauth_started |-> reauth]

\* the record of one handle_exception call
Handled(ex, auth) ==
    [called |-> TRUE, ex |-> ex, auth_before |-> auth,
     expired_before |-> auth_token_expired]

\* the host sets pending_initialization around its setup
BeginInitialization ==
    /\ ~pending_initialization /\ poll_left = 0
    /\ pending_initialization' = TRUE
    /\ reply' = NoReply /\ handled' = NotHandled /\ chunks' = NoChunks
    /\ UNCHANGED <<auth_method, auth_token_expired, reauth_started, poll_left, notTransport>>

EndInitialization ==
    /\ pending_initialization
    /\ pending_initialization' = FALSE
    /\ reply' = NoReply /\ handled' = NotHandled /\ chunks' = NoChunks
    /\ UNCHANGED <<auth_method, auth_token_expired, reauth_started, poll_left, notTransport>>

\* request() from a caller that lets the exception reach the host (an
\* entity's turn_on, a service call, the setup)
Request ==
    \E status \in HttpStatuses, probe \in Probes :
        /\ reply' = Reply(status, probe)
        /\ auth_method' = auth_for_request(auth_method, probe)
        /\ handled' = NotHandled
        /\ chunks' = NoChunks
        /\ UNCHANGED <<pending_initialization, auth_token_expired, reauth_started,
                       poll_left, notTransport>>

\* request_bytes(): the chunks of the reply are yielded whatever its status,
\* nothing is raised
RequestBytes ==
    \E status \in HttpStatuses, probe \in Probes :
        /\ chunks' = Chunks(status, probe)
        /\ auth_method' = auth_for_request(auth_method, probe)
        /\ reply' = NoReply
        /\ handled' = NotHandled
        /\ UNCHANGED <<pending_initialization, auth_token_expired, reauth_started,
                       poll_left, notTransport>>

\* a request() inside a try block of a coordinator, where an exception goes
\* to handle_exception before the coordinator goes on: the state it leaves
guarded_request(status, probe) ==
    LET r == Reply(status, probe)
        h == handle_exception(r.outcome, auth_token_expired, r.auth, reauth_started)
    IN  IF IsException(r.outcome)
        THEN [reply |-> r, handled |-> Handled(r.outcome, r.auth),
              auth_method |-> h.auth_method,
              auth_token_expired |-> h.auth_token_expired,
              reauth_started |-> h.reauth_started]
        ELSE [reply |-> r, handled |-> NotHandled,
              auth_method |-> r.auth,
              auth_token_expired |-> auth_token_expired,
              reauth_started |-> reauth_started]

\* largest number of items (events, output ports, storage) one poll fetches
MaxPollItems == 2

\* EventsCoordinator._async_update_data starts: it will fetch n items
PollStart ==
    \E n \in 1..MaxPollItems :
        /\ poll_left = 0
        /\ poll_left' = n
        /\ reply' = NoReply /\ handled' = NotHandled /\ chunks' = NoChunks
        /\ UNCHANGED <<auth_method, pending_initialization, auth_token_expired,
                       reauth_started, notTransport>>

\* one item of the poll (the state of an event or of an output port, the
\* storage list); after the last one the poll clears auth_token_expired
PollItem ==
    \E status \in HttpStatuses, probe \in Probes :
        LET g == guarded_request(status, probe)
        IN  /\ poll_left > 0
            /\ poll_left' = poll_left - 1
            /\ reply' = g.reply
            /\ handled' = g.handled
            /\ chunks' = NoChunks
            /\ auth_method' = g.auth_method
            /\ reauth_started' = g.reauth_started
            /\ auth_token_expired' =
                   IF poll_left = 1 THEN FALSE ELSE g.auth_token_expired
            /\ UNCHANGED <<pending_initialization, notTransport>>

\* one item of SecondaryCoordinator._async_update_data (holiday mode, alarm
\* server); this poll never clears auth_token_expired
SecondaryItem ==
    \E status \in HttpStatuses, probe \in Probes :
        LET g == guarded_request(status, probe)
        IN  /\ reply' = g.reply
            /\ handled' = g.handled
            /\ chunks' = NoChunks
            /\ auth_method' = g.auth_method
            /\ reauth_started' = g.reauth_started
            /\ auth_token_expired' = g.auth_token_expired
            /\ UNCHANGED <<pending_initialization, poll_left, notTransport>>

(***************************************************************************)
(* Capability discovery: ISAPIClient.get_hardware_info                     *)
(***************************************************************************)
CONNECTION_TYPE_DIRECT == "Direct"

CONNECTION_TYPE_PROXIED == "Proxied"

\* an integer attribute and a text one (str(n), or the text of an XML node)
IntValue(n) == [type |-> "int", value |-> n]

StrValue(n) == [type |-> "str", value |-> n]

\* ProtocolsInfo.rtsp_port before discovery
DefaultRtspPort == 554

\* the serialNumber the device reports in System/deviceInfo
DeviceSerial == <<"D","S","-","7","6","0","8","N","I">>

\* ISAPIDeviceInfo(): the fields the model follows
NewDeviceInfo(serial_no) == [serial_no |-> serial_no, is_nvr |-> FALSE]

\* CapabilitiesInfo()
NewCapabilities ==
    [analog_cameras_inputs |-> 0, digital_cameras_inputs |-> 0,
     support_event_mutex_checking |-> FALSE, support_alarm_server |-> FALSE,
     is_multi_channel |-> FALSE]

\* the DeviceCap documents of System/capabilities: camera input counts, the
\* mutex-checking flag, PIR and scene-change support; the first is what an
\* empty reply reads as
DeviceCapEmpty ==
    [videoInputPortNums |-> 0, inputProxyNums |-> 0,
     isSupportGetmutexFuncErrMsg |-> FALSE, isSupportPIR |-> FALSE,
     isSupportSceneChangeDetection |-> FALSE]


DeviceCap(analog, digital, mutex, pir, scene) ==
    [videoInputPortNums |-> analog, inputProxyNums |-> digital,
     isSupportGetmutexFuncErrMsg |-> mutex, isSupportPIR |-> pir,
     isSupportSceneChangeDetection |-> scene]

\* a camera that reports no inputs, cameras that report one, a recorder with
\* two digital inputs, a hybrid one, one with two analog inputs
DeviceCaps ==
    { DeviceCap(0, 0, FALSE, TRUE, TRUE),
      DeviceCap(1, 0, TRUE, FALSE, FALSE),
      DeviceCap(0, 1, FALSE, FALSE, TRUE),
      DeviceCap(0, 2, TRUE, FALSE, FALSE),
      DeviceCap(1, 1, FALSE, FALSE, TRUE),
      DeviceCap(2, 0, FALSE, FALSE, FALSE) }

\* the condition of get_hardware_info that sets is_nvr
is_nvr_by_inputs(analog, digital) == analog + digital > 1

\* a stage of the discovery reads its document: the reply the device gave,
\* or the empty one when request() returned {} during initialization
Fetched(outcome, doc, empty) == IF outcome = "result" THEN doc ELSE empty

\* the device model as ISAPIClient.__init__ and HikvisionDevice.__init__
\* leave it
Constructed ==
    [device_info |-> NewDeviceInfo(NoText), capabilities |-> NewCapabilities,
     system_capabilities |-> DeviceCapEmpty, cameras |-> <<>>,
     supported_events |-> <<>>, events_info |-> <<>>,
     protocols |-> [rtsp_port |-> IntValue(DefaultRtspPort)]]

\* a setup that raised: the host gives up the entry and with it the client,
\* whose next setup starts from a new object
Failed ==
    /\ hw_pc' = "failed"
    /\ device_info' = Constructed.device_info
    /\ capabilities' = Constructed.capabilities
    /\ system_capabilities' = Constructed.system_capabilities
    /\ cameras' = Constructed.cameras
    /\ supported_events' = Constructed.supported_events
    /\ events_info' = Constructed.events_info
    /\ protocols' = Constructed.protocols

\* the status codes the requests of the discovery and of the toggling meet:
\* success, the one error request() raises at any time, one it suppresses
\* during initialization
DiscoveryStatuses == {200, UNAUTHORIZED, 404}

\* the device of the discovery answers the WWW-Authenticate probe with a
\* Digest challenge
DigestProbe == [status |-> UNAUTHORIZED, www |-> {"Digest"}]

\* ISAPIClient.get_device_info, the first stage of get_hardware_info
HwDeviceInfo ==
    \E status \in DiscoveryStatuses :
        LET outcome == request_outcome(status, pending_initialization)
        IN  /\ hw_pc = "new"
            /\ auth_method' = auth_for_request(auth_method, DigestProbe)
            /\ IF IsException(outcome)
               THEN Failed
               ELSE /\ hw_pc' = "capabilities"
                    /\ device_info' =
                         NewDeviceInfo(Fetched(outcome, DeviceSerial, NoText))
                    /\ UNCHANGED <<capabilities, system_capabilities, cameras,
                                   supported_events, events_info, protocols>>
            /\ UNCHANGED rtsp_port_forced
            /\ UNCHANGED <<pending_initialization, auth_token_expired,
                           reauth_started, poll_left, reply, handled>>
            /\ UNCHANGED notDiscovery

\* get_device_info called again on the client of a device that is set up
GetDeviceInfo ==
    \E status \in DiscoveryStatuses :
        LET outcome == request_outcome(status, pending_initialization)
        IN  /\ hw_pc = "running"
            /\ auth_method' = auth_for_request(auth_method, DigestProbe)
            /\ IF IsException(outcome)
               THEN UNCHANGED device_info
               ELSE device_info' =
                        NewDeviceInfo(Fetched(outcome, DeviceSerial, NoText))
            /\ UNCHANGED <<hw_pc, rtsp_port_forced, capabilities,
                           system_capabilities, cameras, supported_events,
                           events_info, protocols>>
            /\ UNCHANGED <<pending_initialization, auth_token_expired,
                           reauth_started, poll_left, reply, handled>>
            /\ UNCHANGED notDiscovery

\* the replies to Event/notification/httpHosts: a list with a host, a
\* document without any
AlarmServerReplies == {"host", "no_host"}

\* get_hardware_info from System/capabilities to the NVR classification; its
\* two requests meet the same status
HwCapabilities ==
    \E status \in DiscoveryStatuses, cap \in DeviceCaps,
       alarm \in AlarmServerReplies :
        LET outcome == request_outcome(status, pending_initialization)
            outcome2 == outcome
            doc == Fetched(outcome, cap, DeviceCapEmpty)
        IN  /\ hw_pc = "capabilities"
            /\ IF \/ IsException(outcome) \/ IsException(outcome2)
                  \/ (outcome2 = "result" /\ alarm = "no_host")
               THEN Failed
               ELSE /\ hw_pc' = "cameras"
                    /\ UNCHANGED <<cameras, supported_events, events_info,
                                   protocols>>
                    /\ capabilities' =
                         [capabilities EXCEPT
                            !.analog_cameras_inputs = doc.videoInputPortNums,
                            !.digital_cameras_inputs = doc.inputProxyNums,
                            !.support_event_mutex_checking =
                                doc.isSupportGetmutexFuncErrMsg,
                            !.support_alarm_server = (outcome2 = "result")]
                    /\ system_capabilities' = doc
                    /\ device_info' =
                         [device_info EXCEPT !.is_nvr =
                            IF is_nvr_by_inputs(doc.videoInputPortNums,
                                                doc.inputProxyNums)
                            THEN TRUE ELSE @]
            /\ UNCHANGED rtsp_port_forced
            /\ UNCHANGED transportVars
            /\ UNCHANGED notDiscovery

\* str(serial_no) inside an f-string: None prints as "None"
SerialText(serial_no) == IF serial_no = NoText THEN "None" ELSE Text(serial_no)

\* IPCamera(...) and AnalogCamera(...): the fields the model follows
Camera(kind, id, serial_no, input_port, connection_type) ==
    [kind |-> kind, id |-> id, serial_no |-> serial_no,
     input_port |-> input_port, connection_type |-> connection_type,
     events_info |-> <<>>]

\* sorted(channel_ids)
RECURSIVE SortedSeq(_)
SortedSeq(S) ==
    IF S = {} THEN <<>>
    ELSE LET m == CHOOSE x \in S : \A y \in S : x <= y
         IN  <<m>> \o SortedSeq(S \ {m})

\* the videoInputChannelID sets of the Streaming/channels replies: none, one
\* channel, two channels (a thermal camera)
StreamingChannelSets == { {}, {1}, {1, MaxChannel} }

\* get_cameras building the one camera of the device info, whatever the reply
direct_cameras_single(channel_ids, serial_no) ==
    <<Camera("IPCamera", 1, SerialText(serial_no), 1, CONNECTION_TYPE_DIRECT)>>

\* get_cameras on a device that is no NVR
direct_cameras(channel_ids, serial_no) ==
    LET ids == SortedSeq(channel_ids)
    IN  [i \in 1..Len(ids) |->
            Camera("IPCamera", ids[i], SerialText(serial_no), ids[i],
                   CONNECTION_TYPE_DIRECT)]

\* one InputProxyChannel; serialNumber "" stands for a missing one
DigitalCamera(id, hasSource, serialNumber) ==
    [id |-> id, hasSource |-> hasSource, serialNumber |-> serialNumber,
     proxyProtocol |-> "HIKVISION", srcInputPort |-> id]

\* the InputProxyChannelList replies: no camera, two that report the same
\* serial number, one without a serial number, one without a source
DigitalCameraLists ==
    { <<>>,
      <<DigitalCamera(1, TRUE, "CAM-A"), DigitalCamera(MaxChannel, TRUE, "CAM-A")>>,
      <<DigitalCamera(1, TRUE, ""), DigitalCamera(MaxChannel, TRUE, "CAM-B")>>,
      <<DigitalCamera(1, FALSE, ""), DigitalCamera(MaxChannel, TRUE, "CAM-B")>> }

\* get_cameras never finding an enumerated camera with the serial number
has_camera_with_serial_never(cams, serial_no) == FALSE

\* ISAPIClient.get_camera_by_serial_no(serial_no) is not None
has_camera_with_serial(cams, serial_no) ==
    \E i \in DOMAIN cams : cams[i].serial_no = serial_no

\* the loop of get_cameras over the digital cameras of an NVR
RECURSIVE add_digital_cameras(_, _, _)
add_digital_cameras(cams, list, device_serial) ==
    IF list = <<>> THEN cams
    ELSE LET dc == Head(list)
             serial_no ==
                 IF dc.serialNumber = "" \/ has_camera_with_serial(cams, dc.serialNumber)
                 THEN SerialText(device_serial) \o "_" \o dc.proxyProtocol
                        \o "_" \o ToString(dc.id)
                 ELSE dc.serialNumber
         IN  IF ~dc.hasSource
             THEN add_digital_cameras(cams, Tail(list), device_serial)
             ELSE add_digital_cameras(
                      Append(cams, Camera("IPCamera", dc.id, serial_no,
                                          dc.srcInputPort, CONNECTION_TYPE_PROXIED)),
                      Tail(list), device_serial)

\* the VideoInputChannelList replies: the ids of the analog channels, which
\* a hybrid recorder numbers apart from its digital ones
AnalogCameraLists == { <<>>, <<MaxChannel + 1>> }

\* the loop of get_cameras over the analog cameras of an NVR
add_analog_cameras(cams, list, device_serial) ==
    cams \o [i \in 1..Len(list) |->
                Camera("AnalogCamera", list[i],
                       SerialText(device_serial) \o "-VI" \o ToString(list[i]),
                       list[i], CONNECTION_TYPE_DIRECT)]

\* ISAPIClient.get_cameras as get_hardware_info calls it; the requests of
\* get_camera_streams get stream_status, and an exception of any request
\* ends the setup
HwCameras ==
    \E status \in DiscoveryStatuses, stream_status \in DiscoveryStatuses,
       channel_ids \in (IF device_info.is_nvr THEN {{}} ELSE StreamingChannelSets),
       digital \in (IF device_info.is_nvr THEN DigitalCameraLists ELSE {<<>>}),
       analog \in (IF device_info.is_nvr THEN AnalogCameraLists ELSE {<<>>}) :
        LET outcome == request_outcome(status, pending_initialization)
            stream_outcome == request_outcome(stream_status, pending_initialization)
            ask_digital == capabilities.digital_cameras_inputs > 0
            ask_analog == capabilities.analog_cameras_inputs > 0
            found ==
                IF ~device_info.is_nvr
                THEN direct_cameras(Fetched(outcome, channel_ids, {}),
                                    device_info.serial_no)
                ELSE add_analog_cameras(
                         add_digital_cameras(<<>>,
                             IF ask_digital THEN Fetched(outcome, digital, <<>>)
                             ELSE <<>>,
                             device_info.serial_no),
                         IF ask_analog THEN Fetched(outcome, analog, <<>>)
                         ELSE <<>>,
                         device_info.serial_no)
            requested == ~device_info.is_nvr \/ ask_digital \/ ask_analog
        IN  /\ hw_pc = "cameras"
            /\ IF \/ (requested /\ IsException(outcome))
                  \/ (found # <<>> /\ IsException(stream_outcome))
               THEN Failed
               ELSE /\ hw_pc' = "events"
                    /\ UNCHANGED <<device_info, system_capabilities,
                                   supported_events, events_info, protocols>>
                    /\ cameras' = cameras \o found
                    /\ capabilities' =
                         IF device_info.is_nvr THEN capabilities
                         ELSE [capabilities EXCEPT !.is_multi_channel =
                                 Cardinality(Fetched(outcome, channel_ids, {})) > 1]
            /\ UNCHANGED rtsp_port_forced
            /\ UNCHANGED transportVars
            /\ UNCHANGED notDiscovery

\* the triggers a device lists in Event/triggers during the discovery: motion
\* detection on channel 1 with and without the surveillance-center
\* notification, a proxied intrusion detection, an alarm input, and an event
\* the table does not hold
SceneChange ==
    <<"s","c","e","n","e","c","h","a","n","g","e","d","e","t","e","c","t","i","o","n">>

FieldDetection == <<"f","i","e","l","d","d","e","t","e","c","t","i","o","n">>

DiscoveryTriggers ==
    << Trigger(AliasVmd, 1, 0, 0, 0, <<"email", "center">>),
       Trigger(AliasThermometry, 1, 0, 0, 0, <<"email">>),
       Trigger(FieldDetection, 0, MaxChannel, 0, 0, <<>>),
       Trigger(<<"I","O">>, 0, 0, 1, 0, <<"email">>),
       Trigger(<<"f","a","c","e","d","e","t","e","c","t","i","o","n">>, 1, 0, 0, 0, <<>>) >>

MaxTriggers == 2

\* the EventTriggerList replies: up to MaxTriggers of the triggers, in the
\* order above
TriggerLists ==
    { [i \in 1..Cardinality(I) |-> DiscoveryTriggers[SortedSeq(I)[i]]] :
        I \in {J \in SUBSET DOMAIN DiscoveryTriggers : Cardinality(J) <= MaxTriggers} }

\* deep_get(reply, "EventTrigger", {}) of an empty reply
NoTrigger == Trigger(NoText, 0, 0, 0, 0, <<>>)

\* the ChannelEventCapList replies of Event/channels/capabilities: channel
\* ids with the event types of eventType/@opt
ChannelEventCaps ==
    { <<>>,
      << [channelID |-> 1, eventType |-> <<AliasVmd, FieldDetection>>],
         [channelID |-> MaxChannel,
          eventType |-> <<AliasVmd, <<"f","a","c","e","d","e","t","e","c","t","i","o","n">>>>] >> }

\* the (channel, event type) pairs in the order the nested loops visit them
RECURSIVE ChannelEventPairs(_)
ChannelEventPairs(caps) ==
    IF caps = <<>> THEN <<>>
    ELSE [i \in 1..Len(Head(caps).eventType) |->
             [channel_id |-> Head(caps).channelID,
              event_type |-> Head(caps).eventType[i]]]
         \o ChannelEventPairs(Tail(caps))

\* the events create_event_info makes of a trigger list, None left out
RECURSIVE listed_events(_, _)
listed_events(triggers, pir_supported) ==
    IF triggers = <<>> THEN <<>>
    ELSE LET event == create_event_info(Head(triggers), pir_supported)
         IN  (IF event = NoEvent THEN <<>> ELSE <<event>>)
             \o listed_events(Tail(triggers), pir_supported)

has_event(events, event_id, channel_id) ==
    \E i \in DOMAIN events :
        events[i].id = event_id /\ events[i].channel_id = channel_id

\* the multichannel loop of get_supported_events: the events after it and
\* whether it sent a request; every Event/triggers/<id>-<channel> request is
\* answered with the trigger of that event with the given notifications
RECURSIVE fetch_channel_events(_, _, _, _, _, _)
fetch_channel_events(events, requested, pairs, outcome, notifications, pir_supported) ==
    IF pairs = <<>> THEN [events |-> events, requested |-> requested]
    ELSE LET pair == Head(pairs)
             event_id == DiscoveredEventId(pair.event_type)
             fetch == /\ event_id \in DOMAIN EVENTS
                      /\ ~has_event(events, event_id, pair.channel_id)
             event == create_event_info(
                          Fetched(outcome,
                                  Trigger(pair.event_type, pair.channel_id, 0, 0, 0,
                                          notifications),
                                  NoTrigger),
                          pir_supported)
         IN  fetch_channel_events(
                 IF fetch /\ event # NoEvent THEN Append(events, event) ELSE events,
                 requested \/ fetch, Tail(pairs), outcome, notifications,
                 pir_supported)

\* the notification lists of the triggers fetched one by one
FetchedNotificationLists == { <<>>, <<"center">> }

\* ISAPIClient.get_supported_events and the assignment of its result
HwEvents ==
    \E status \in DiscoveryStatuses, fetch_status \in DiscoveryStatuses,
       triggers \in TriggerLists, notifications \in FetchedNotificationLists,
       channel_events \in (IF capabilities.is_multi_channel
                           THEN ChannelEventCaps ELSE {<<>>}) :
        LET outcome == request_outcome(status, pending_initialization)
            fetch_outcome == request_outcome(fetch_status, pending_initialization)
            pir_supported == system_capabilities.isSupportPIR
            listed == listed_events(Fetched(outcome, triggers, <<>>), pir_supported)
            fetch_scene ==
                /\ ~ \E i \in DOMAIN listed : listed[i].id = "scenechangedetection"
                /\ system_capabilities.isSupportSceneChangeDetection
            scene == create_event_info(
                         Fetched(fetch_outcome,
                                 Trigger(SceneChange, 1, 0, 0, 0, notifications),
                                 NoTrigger),
                         pir_supported)
            with_scene == IF fetch_scene /\ scene # NoEvent
                          THEN Append(listed, scene) ELSE listed
            per_channel ==
                IF capabilities.is_multi_channel
                THEN fetch_channel_events(with_scene, FALSE,
                         ChannelEventPairs(Fetched(fetch_outcome, channel_events, <<>>)),
                         fetch_outcome, notifications, pir_supported)
                ELSE [events |-> with_scene, requested |-> FALSE]
            fetched == fetch_scene \/ capabilities.is_multi_channel
        IN  /\ hw_pc = "events"
            /\ IF IsException(outcome) \/ (fetched /\ IsException(fetch_outcome))
               THEN Failed
               ELSE /\ hw_pc' = "protocols"
                    /\ supported_events' = per_channel.events
                    /\ UNCHANGED <<device_info, capabilities, system_capabilities,
                                   cameras, events_info, protocols>>
            /\ UNCHANGED rtsp_port_forced
            /\ UNCHANGED transportVars
            /\ UNCHANGED notDiscovery

\* one AdminAccessProtocol; portNo 0 stands for a missing one
AdminAccess(protocol, portNo) == [protocol |-> protocol, portNo |-> portNo]

\* the AdminAccessProtocolList replies of Security/adminAccesses: empty,
\* without an RTSP entry, RTSP on a port of the device's own, and an RTSP
\* entry without port
AdminAccessLists ==
    { <<>>,
      <<AdminAccess("HTTP", 80)>>,
      <<AdminAccess("HTTP", 80), AdminAccess("RTSP", 10554)>>,
      <<AdminAccess("RTSP", 0)>> }

\* the loop of get_protocols: protocols.rtsp_port after it
get_protocols(items, forced, current) ==
    LET rtsp == {i \in DOMAIN items :
                    items[i].protocol = "RTSP" /\ items[i].portNo # 0}
        first == CHOOSE i \in rtsp : \A j \in rtsp : i <= j
    IN  IF rtsp = {} THEN current
        ELSE IF forced # 0 THEN StrValue(forced)
        ELSE StrValue(items[first].portNo)

\* get_protocols and the storage listing, whose exceptions get_hardware_info
\* suppresses: the last stage of the discovery
HwProtocols ==
    \E status \in DiscoveryStatuses, items \in AdminAccessLists :
        LET outcome == request_outcome(status, pending_initialization)
        IN  /\ hw_pc = "protocols"
            /\ IF IsException(outcome)
               THEN Failed
               ELSE /\ hw_pc' = "ready"
                    /\ protocols' =
                         [protocols EXCEPT !.rtsp_port =
                            get_protocols(Fetched(outcome, items, <<>>),
                                          rtsp_port_forced, @)]
                    /\ UNCHANGED <<device_info, capabilities, system_capabilities,
                                   cameras, supported_events, events_info>>
            /\ UNCHANGED rtsp_port_forced
            /\ UNCHANGED transportVars
            /\ UNCHANGED notDiscovery

\* slugify(serial_no.lower()): lower case, every other character a "_"
SlugChars == {"0","1","2","3","4","5","6","7","8","9"}

Slugify(s) ==
    [i \in 1..Len(s) |->
        IF LowerChar(s[i]) \in SlugChars \/ \E k \in DOMAIN LowerChars : LowerChars[k] = LowerChar(s[i])
        THEN LowerChar(s[i]) ELSE "_"]

\* the selection of get_device_event_capabilities; camera_id 0 stands for
\* None, the device itself
is_integration_supported(event, camera_id) ==
    IF camera_id = 0
    THEN event.id \in DOMAIN EVENTS /\ EVENTS[event.id].type = EVENT_IO
    ELSE event.channel_id = camera_id /\ event.id \in DOMAIN EVENTS

\* the test inverted: an event disabled for notifying the surveillance center
event_disabled_with_center(notifications) ==
    \E i \in DOMAIN notifications : notifications[i] = "center"

\* event.disabled as get_device_event_capabilities sets it
event_disabled(notifications) ==
    ~ \E i \in DOMAIN notifications : notifications[i] = "center"

\* the unique_id built with the event's channel in the place of the camera id
\* even for a device-level event
event_unique_id_by_channel(event, camera_id, serial_no) ==
    Text(Slugify(serial_no))
        \o "_" \o ToString(event.channel_id)
        \o (IF event.io_port_id # 0 THEN "_" \o ToString(event.io_port_id) ELSE "")
        \o "_" \o event.id

event_unique_id(event, camera_id, serial_no) ==
    Text(Slugify(serial_no))
        \o (IF camera_id # 0 THEN "_" \o ToString(camera_id) ELSE "")
        \o (IF event.io_port_id # 0 THEN "_" \o ToString(event.io_port_id) ELSE "")
        \o "_" \o event.id

\* get_device_event_capabilities(camera_id): the positions in
\* supported_events of the events it returns, and supported_events with the
\* unique_id and disabled it writes into them
selected_events(events, camera_id) ==
    LET Selected(i) == is_integration_supported(events[i], camera_id)
    IN  SelectSeq([i \in 1..Len(events) |-> i], Selected)

get_device_event_capabilities(events, camera_id, serial_no) ==
    [i \in 1..Len(events) |->
        IF is_integration_supported(events[i], camera_id)
        THEN [events[i] EXCEPT
                 !.unique_id = event_unique_id(events[i], camera_id, serial_no),
                 !.disabled = event_disabled(events[i].notifications)]
        ELSE events[i]]

\* the calls of init_coordinators for the cameras, in the order of the list
RECURSIVE camera_event_capabilities(_, _, _)
camera_event_capabilities(events, cams, serial_no) ==
    IF cams = <<>> THEN events
    ELSE camera_event_capabilities(
             get_device_event_capabilities(events, Head(cams).id, serial_no),
             Tail(cams), serial_no)

\* HikvisionDevice.init_coordinators up to the coordinators; serial_no.lower()
\* raises on a device without serial number as soon as an event is selected
InitCoordinators ==
    LET selects ==
            \E i \in DOMAIN supported_events :
                \/ is_integration_supported(supported_events[i], 0)
                \/ \E c \in DOMAIN cameras :
                       is_integration_supported(supported_events[i], cameras[c].id)
    IN  /\ hw_pc = "ready"
        /\ IF selects /\ device_info.serial_no = NoText
           THEN Failed
           ELSE /\ hw_pc' = "running"
                /\ UNCHANGED <<device_info, capabilities, system_capabilities,
                               protocols>>
                /\ supported_events' =
                     camera_event_capabilities(
                         get_device_event_capabilities(supported_events, 0,
                                                       device_info.serial_no),
                         cameras, device_info.serial_no)
                /\ events_info' = selected_events(supported_events, 0)
                /\ cameras' =
                     [c \in DOMAIN cameras |->
                        [cameras[c] EXCEPT !.events_info =
                            selected_events(supported_events, cameras[c].id)]]
        /\ UNCHANGED rtsp_port_forced
        /\ UNCHANGED transportVars
        /\ UNCHANGED notDiscovery

(***************************************************************************)
(* Toggling an event: ISAPIClient.set_event_enabled_state                  *)
(***************************************************************************)
\* the callers that can be inside set_event_enabled_state
Tasks == {"t1"}

\* the device whose events are toggled: a camera with one channel that lists
\* motion detection, intrusion detection, an alarm input and an event the
\* table does not hold
ToggleTriggers ==
    << Trigger(AliasVmd, 1, 0, 0, 0, <<"center">>),
       Trigger(FieldDetection, 1, 0, 0, 0, <<"center">>),
       Trigger(<<"I","O">>, 0, 0, 1, 0, <<"center">>),
       Trigger(<<"f","a","c","e","d","e","t","e","c","t","i","o","n">>, 1, 0, 0, 0, <<>>) >>

ToggleCameras == direct_cameras({1}, DeviceSerial)

ToggleEvents ==
    camera_event_capabilities(
        get_device_event_capabilities(listed_events(ToggleTriggers, FALSE), 0,
                                      DeviceSerial),
        ToggleCameras, DeviceSerial)

\* the channel_id arguments of the callers
ToggleChannels == {0, 1}

\* the events that have a document on the device
ToggleUrls == {ToggleEvents[e].url : e \in DOMAIN ToggleEvents} \ {NoUrl}

EventOfUrl(url) == CHOOSE e \in DOMAIN ToggleEvents : ToggleEvents[e].url = url

\* one event document: its state node, the enabled text and another field
Doc(node, enabled) ==
    [node |-> node, enabled |-> enabled, sensitivityLevel |-> "50"]

\* the {} request() returns for a suppressed error
NoDoc == [node |-> "None", enabled |-> "None", sensitivityLevel |-> "None"]

EnabledTexts == {"true", "false"}

DeviceDocs ==
    [ToggleUrls -> EnabledTexts]

DocsOf(enabled) ==
    [url \in ToggleUrls |->
        Doc(get_event_state_node(ToggleEvents[EventOfUrl(url)]), enabled[url])]

\* the pairs of functions the device does not run together on one channel
DeviceMutex == { {"motiondetection", "fielddetection"} }

\* the spellings of a function in the device's MutexFunctionList: the event
\* id, the name the mutex API uses for it, the tag of its document
MutexNamings == {"id", "vendor", "tag"}

MutexFunctionName(event_id, naming) ==
    IF naming = "vendor" /\ event_id \in DOMAIN MUTEX_ALTERNATE_ID
    THEN MUTEX_ALTERNATE_ID[event_id]
    ELSE IF naming = "tag" THEN Text(EVENTS[event_id].slug)
    ELSE event_id

\* the function the device reads from the POST body
DeviceFunction(function) ==
    IF \E id \in DOMAIN MUTEX_ALTERNATE_ID : MUTEX_ALTERNATE_ID[id] = function
    THEN CHOOSE id \in DOMAIN MUTEX_ALTERNATE_ID : MUTEX_ALTERNATE_ID[id] = function
    ELSE function

\* the device's reply to the System/mutexFunction POST: the enabled events of
\* the channel that exclude the function asked for
RECURSIVE MutexFunctionList(_, _, _, _, _)
MutexFunctionList(events, function, channel_id, naming, d) ==
    IF events = <<>> THEN <<>>
    ELSE LET b == Head(events)
             conflicts ==
                 /\ b.url # NoUrl
                 /\ b.channel_id = channel_id
                 /\ {b.id, DeviceFunction(function)} \in DeviceMutex
                 /\ d[b.url].enabled = "true"
         IN  (IF conflicts
              THEN <<[mutexFunction |-> MutexFunctionName(b.id, naming),
                      channelID |-> <<channel_id>>, of |-> b.id]>>
              ELSE <<>>)
             \o MutexFunctionList(Tail(events), function, channel_id, naming, d)

\* MutexIssue(event_id, channels)
MutexIssue(event_id, channels) == [event_id |-> event_id, channels |-> channels]

\* get_event_switch_mutex dropping the MutexFunctionList
mutex_issues_none(mutex_list) == <<>>

\* the loop of get_event_switch_mutex over the MutexFunctionList
mutex_issues(mutex_list) ==
    [i \in 1..Len(mutex_list) |->
        MutexIssue(IF mutex_list[i].mutexFunction \in DOMAIN EVENTS_ALTERNATE_ID
                   THEN EVENTS_ALTERNATE_ID[mutex_list[i].mutexFunction]
                   ELSE mutex_list[i].mutexFunction,
                   mutex_list[i].channelID)]

\* raise ISAPISetEventStateMutexError(event, mutex_issues): the constructor
\* looks the first issue up in the event table
mutex_error(issues) ==
    IF issues[1].event_id \in DOMAIN EVENTS
    THEN "ISAPISetEventStateMutexError" ELSE "KeyError"

\* set_event_enabled_state without the comparison: every call goes on to PUT
state_matches_never(new_state, enabled) == FALSE

\* the test of set_event_enabled_state that ends the call without a PUT
state_matches(new_state, enabled) == new_state = enabled

\* set_event_enabled_state probing before a disabling call as well
checks_mutex_any_state(channel_id, is_enabled, capability) ==
    channel_id # 0 /\ capability.support_event_mutex_checking

\* the test of set_event_enabled_state before get_event_switch_mutex
checks_mutex(channel_id, is_enabled, capability) ==
    channel_id # 0 /\ is_enabled /\ capability.support_event_mutex_checking

\* set_event_enabled_state sending a new document that holds the state node
\* and its enabled field only
changed_document_bare(data, new_state) ==
    [NoDoc EXCEPT !.node = data.node, !.enabled = new_state]

\* data[node]["enabled"] = new_state: the document fetched, with the one
\* field assigned
changed_document(data, new_state) == [data EXCEPT !.enabled = new_state]

\* a caller outside set_event_enabled_state
IdleTask ==
    [pc |-> "idle", event |-> 0, channel_id |-> 0, is_enabled |-> FALSE,
     mutex_list |-> <<>>, issues |-> <<>>, seen |-> "None", data |-> NoDoc,
     log |-> <<>>, result |-> "none"]

Done(task, result) == [task EXCEPT !.pc = "done", !.result = result]

Sent(task, method) == [task EXCEPT !.log = Append(@, method)]

\* set_event_enabled_state up to its first request
SetEventEnabledState(t) ==
    \E e \in DOMAIN supported_events, channel_id \in ToggleChannels,
       is_enabled \in BOOLEAN :
        LET task == [IdleTask EXCEPT !.event = e, !.channel_id = channel_id,
                                     !.is_enabled = is_enabled]
        IN  /\ tasks[t].pc = "idle"
            /\ tasks' = [tasks EXCEPT ![t] =
                   IF supported_events[e].url = NoUrl THEN Done(task, "False")
                   ELSE IF checks_mutex(channel_id, is_enabled, capabilities)
                   THEN [task EXCEPT !.pc = "probe"]
                   ELSE [task EXCEPT !.pc = "get"]]
            /\ UNCHANGED <<docs, transportVars, notToggle>>

\* get_event_switch_mutex and what set_event_enabled_state does with its
\* result
MutexProbe(t) ==
    \E status \in DiscoveryStatuses, naming \in MutexNamings :
        LET task == tasks[t]
            event == supported_events[task.event]
            function == IF event.id \in DOMAIN MUTEX_ALTERNATE_ID
                        THEN MUTEX_ALTERNATE_ID[event.id] ELSE event.id
            outcome == request_outcome(status, pending_initialization)
            mutex_list ==
                Fetched(outcome,
                        MutexFunctionList(supported_events, function,
                                          task.channel_id, naming, docs),
                        <<>>)
            issues == mutex_issues(mutex_list)
            probed == [Sent(task, "POST") EXCEPT !.mutex_list = mutex_list,
                                                  !.issues = issues]
        IN  /\ task.pc = "probe"
            /\ IF ~EVENTS[event.id].mutex
               THEN /\ tasks' = [tasks EXCEPT ![t].pc = "get"]
                    /\ UNCHANGED auth_method
               ELSE /\ auth_method' = auth_for_request(auth_method, DigestProbe)
                    /\ tasks' = [tasks EXCEPT ![t] =
                         IF IsException(outcome)
                         THEN Done(Sent(task, "POST"), outcome)
                         ELSE IF issues = <<>>
                         THEN [probed EXCEPT !.pc = "get"]
                         ELSE Done(probed, mutex_error(issues))]
            /\ UNCHANGED <<docs, pending_initialization, auth_token_expired,
                           reauth_started, poll_left, reply, handled, notToggle>>

\* the GET of the event document and the comparison with the target
GetEventState(t) ==
    \E status \in DiscoveryStatuses :
        LET task == tasks[t]
            event == supported_events[task.event]
            outcome == request_outcome(status, pending_initialization)
            data == Fetched(outcome, docs[event.url], NoDoc)
            node == get_event_state_node(event)
            new_state == bool_to_str(task.is_enabled)
            got == [Sent(task, "GET") EXCEPT !.data = data]
        IN  /\ task.pc = "get"
            /\ auth_method' = auth_for_request(auth_method, DigestProbe)
            /\ tasks' = [tasks EXCEPT ![t] =
                 IF IsException(outcome) THEN Done(Sent(task, "GET"), outcome)
                 ELSE IF data.node # node THEN Done(got, "KeyError")
                 ELSE IF state_matches(new_state, data.enabled)
                 THEN Done([got EXCEPT !.seen = data.enabled], "None")
                 ELSE [got EXCEPT !.pc = "put", !.seen = data.enabled,
                                  !.data = changed_document(data, new_state)]]
            /\ UNCHANGED <<docs, pending_initialization, auth_token_expired,
                           reauth_started, poll_left, reply, handled, notToggle>>

\* the PUT of the changed document; the device stores what a successful PUT
\* carries
PutEventState(t) ==
    \E status \in DiscoveryStatuses :
        LET task == tasks[t]
            event == supported_events[task.event]
            outcome == request_outcome(status, pending_initialization)
        IN  /\ task.pc = "put"
            /\ auth_method' = auth_for_request(auth_method, DigestProbe)
            /\ docs' = IF outcome = "result"
                       THEN [docs EXCEPT ![event.url] = task.data] ELSE docs
            /\ tasks' = [tasks EXCEPT ![t] =
                 Done(Sent(task, "PUT"),
                      IF IsException(outcome) THEN outcome ELSE "None")]
            /\ UNCHANGED <<pending_initialization, auth_token_expired,
                           reauth_started, poll_left, reply, handled, notToggle>>

\* the caller has its result or its exception
Return(t) ==
    /\ tasks[t].pc = "done"
    /\ tasks' = [tasks EXCEPT ![t] = IdleTask]
    /\ UNCHANGED <<docs, transportVars, notToggle>>

\* somebody changes an event on the device itself
DeviceChange ==
    \E url \in ToggleUrls, enabled \in EnabledTexts :
        /\ docs[url].enabled # enabled
        /\ docs' = [docs EXCEPT ![url].enabled = enabled]
        /\ UNCHANGED <<tasks, transportVars, notToggle>>

(***************************************************************************)
(* Notifications: EventNotificationsView (notifications.py)                *)
(***************************************************************************)
\* alert channel ids above it belong to IP cameras of a recorder
IpChannelOffset == 32

\* the camera lists of the devices that send alerts, in the order get_cameras
\* appends them (digital before analog): no camera, a camera of its own, a
\* recorder with two IP cameras, one whose IP cameras sit on each other's
\* port, a hybrid recorder with an IP camera behind two analog ones
AlertCameraLists ==
    { <<>>,
      <<Camera("IPCamera", 1, "DS-A", 1, CONNECTION_TYPE_DIRECT)>>,
      <<Camera("IPCamera", 1, "CAM-A", 1, CONNECTION_TYPE_PROXIED),
        Camera("IPCamera", 2, "CAM-B", 2, CONNECTION_TYPE_PROXIED)>>,
      <<Camera("IPCamera", 1, "CAM-A", 2, CONNECTION_TYPE_PROXIED),
        Camera("IPCamera", 2, "CAM-B", 1, CONNECTION_TYPE_PROXIED)>>,
      <<Camera("IPCamera", 3, "CAM-A", 1, CONNECTION_TYPE_PROXIED),
        Camera("AnalogCamera", 1, "DS-A-VI1", 1, CONNECTION_TYPE_DIRECT),
        Camera("AnalogCamera", 2, "DS-A-VI2", 2, CONNECTION_TYPE_DIRECT)>> }

\* the channel ids of the alerts: up to MaxChannel on either side of the
\* offset
AlertChannels ==
    0..MaxChannel \cup (IpChannelOffset..(IpChannelOffset + MaxChannel + 1))

\* update_alert_channel keeping every channel id
update_alert_channel_unchanged(cams, channel_id) == channel_id

\* EventNotificationsView.update_alert_channel: alert.channel_id after it
update_alert_channel(cams, channel_id) ==
    IF channel_id > IpChannelOffset
    THEN LET matches ==
                 {i \in DOMAIN cams :
                     /\ cams[i].kind = "IPCamera"
                     /\ cams[i].input_port = channel_id - IpChannelOffset}
         IN  IF matches # {}
             THEN cams[CHOOSE i \in matches : \A j \in matches : i <= j].id
             ELSE channel_id - IpChannelOffset
    ELSE channel_id

ChannelCalls ==
    { [op |-> "update_alert_channel", cameras |-> cs, channel_id |-> c] :
        cs \in AlertCameraLists, c \in AlertChannels }

ApplyUpdateAlertChannel ==
    /\ call.op = "update_alert_channel" /\ ~ret.applied
    /\ ret' = Applied(update_alert_channel(call.cameras, call.channel_id))
    /\ UNCHANGED <<call, notPure>>

\* the Content-Type headers of the POSTs: a plain XML body, a multipart
\* body, a type that is neither, no header
CONTENT_TYPE_XML == {"application/xml", "text/xml"}

ContentTypes == CONTENT_TYPE_XML \cup {"multipart/form-data", "text/plain", "None"}

\* the alerts the devices send: motion on channel 1, intrusion on channel 1,
\* an event the table does not hold, the alarm input 1, motion on the IP
\* channel 33, line crossing on channel 2
NotifyAlerts ==
    { [eventType |-> AliasVmd, relationEvent |-> NoText, inputIOPortID |-> 0,
       ids |-> [k \in {"channelID"} |-> 1]],
      [eventType |-> <<"d","u","r","a","t","i","o","n">>,
       relationEvent |-> FieldDetection, inputIOPortID |-> 0,
       ids |-> [k \in {"channelID"} |-> 1]],
      [eventType |-> <<"f","a","c","e","d","e","t","e","c","t","i","o","n">>,
       relationEvent |-> NoText, inputIOPortID |-> 0,
       ids |-> [k \in {"channelID"} |-> 1]],
      [eventType |-> <<"I","O">>, relationEvent |-> NoText, inputIOPortID |-> 1,
       ids |-> [k \in {} |-> 1]],
      [eventType |-> AliasVmd, relationEvent |-> NoText, inputIOPortID |-> 0,
       ids |-> [k \in {"dynChannelID"} |-> IpChannelOffset + 1]],
      [eventType |-> <<"l","i","n","e","d","e","t","e","c","t","i","o","n">>,
       relationEvent |-> NoText, inputIOPortID |-> 0,
       ids |-> [k \in {"channelID"} |-> MaxChannel]] }

NoAlert ==
    [eventType |-> NoText, relationEvent |-> NoText, inputIOPortID |-> 0,
     ids |-> [k \in {} |-> 1]]

\* the body of a POST, or the XML part of a multipart one: an alert, text
\* that is no XML, nothing (a multipart body holds its image part only)
Body(kind, alert) == [kind |-> kind, alert |-> alert]

Motion1 == CHOOSE a \in NotifyAlerts :
              a.eventType = AliasVmd /\ "channelID" \in DOMAIN a.ids

\* the sender's address and the macAddress of the alert: the first device
\* without mac address, the second device by its address, by its mac
\* address, a stranger
NotifyPeers ==
    { <<"10.0.0.1", "None">>, <<"10.0.0.2", "None">>, <<"10.0.0.9", "mac-b">>,
      <<"10.0.0.9", "None">> }

PostRequest(content_type, body, remote, mac) ==
    [content_type |-> content_type, body |-> body, remote |-> remote, mac |-> mac]

\* the POSTs: every alert as plain XML from the first device and from a
\* stranger, the motion alert from every sender, and the motion alert, the
\* text that is no XML and the empty body under each Content-Type
PostRequests ==
    { PostRequest("application/xml", Body("alert", a), r, "None") :
        a \in NotifyAlerts, r \in {"10.0.0.1", "10.0.0.9"} }
      \cup
    { PostRequest("application/xml", Body("alert", Motion1), peer[1], peer[2]) :
        peer \in NotifyPeers }
      \cup
    { PostRequest(c, b, "10.0.0.1", "None") :
        c \in ContentTypes,
        b \in {Body("alert", Motion1), Body("garbage", NoAlert),
               Body("empty", NoAlert)} }

\* one config entry with its runtime_data: the device's mac address, host,
\* serial number and cameras
Entry(mac, host, disabled, serial_no, cams) ==
    [mac_address |-> mac, host |-> host, disabled_by |-> disabled,
     serial_no |-> serial_no, cameras |-> cams]

EntryA == Entry("mac-a", "10.0.0.1", FALSE, DeviceSerial, ToggleCameras)

EntryB ==
    Entry("mac-b", "10.0.0.2", FALSE, <<"D","S","-","B">>,
          direct_cameras({1}, <<"D","S","-","B">>))

EntryLists ==
    { <<>>, <<EntryA>>, <<EntryA, EntryB>>,
      <<EntryA, [EntryB EXCEPT !.disabled_by = TRUE]>> }

\* the unique ids of the binary sensors in the entity registry: those of the
\* events of the first device
Registry ==
    { "binary_sensor." \o ToggleEvents[i].unique_id :
        i \in {j \in DOMAIN ToggleEvents : ToggleEvents[j].unique_id # "None"} }

\* a sensor of the registry without a state object
NoState == "none"

\* the states of the sensors when the POSTs begin: every sensor off, or one
\* of them without a state object
SensorStates ==
    { [id \in Registry |-> IF id = none THEN NoState ELSE "off"] :
        none \in Registry \cup {"no sensor"} }

\* parse_event_request: the XML text of the request
parse_event_request(content_type, body) ==
    IF content_type = "None" THEN Raised("AttributeError")
    ELSE IF content_type \in CONTENT_TYPE_XML \/ content_type = "multipart/form-data"
    THEN IF body.kind = "empty" THEN Raised("ValueError")
         ELSE [raised |-> "none"]
    ELSE Raised("NonMultipartContentTypeException")

\* get_isapi_device taking the first entry when nothing matches
get_isapi_device_first(entry_list, device_ip, mac) ==
    IF entry_list = <<>> THEN 0 ELSE 1

\* get_isapi_device: the position of the entry it returns, 0 when it raises
get_isapi_device(entry_list, device_ip, mac) ==
    LET by_mac == {i \in DOMAIN entry_list :
                      ~entry_list[i].disabled_by /\ entry_list[i].mac_address = mac}
        by_ip == {i \in DOMAIN entry_list :
                      ~entry_list[i].disabled_by /\ entry_list[i].host = device_ip}
        First(S) == CHOOSE i \in S : \A j \in S : i <= j
    IN  IF Len(entry_list) = 1 THEN 1
        ELSE IF by_mac # {} THEN First(by_mac)
        ELSE IF by_ip # {} THEN First(by_ip)
        ELSE 0

\* trigger_sensor: the unique id it looks up in the entity registry
sensor_unique_id(serial_no, alert) ==
    "binary_sensor." \o Text(Slugify(serial_no))
        \o (IF alert.channel_id # 0 /\ alert.event_id # EVENT_IO
            THEN "_" \o ToString(alert.channel_id) ELSE "")
        \o (IF alert.io_port_id # 0 THEN "_" \o ToString(alert.io_port_id) ELSE "")
        \o "_" \o alert.event_id

\* the message fire_hass_event puts on the bus
HassEvent(alert) ==
    [channel_id |-> alert.channel_id, io_port_id |-> alert.io_port_id,
     event_id |-> alert.event_id]

\* what post has done when it reaches its response: what was raised ("none"
\* when nothing was), the sensor states and the bus
PostOutcome(raised, states, fired) ==
    [raised |-> raised, sensors |-> states, bus |-> fired]

\* trigger_sensor and fire_hass_event
trigger_sensor(states, fired, serial_no, alert) ==
    \* the entity registry knows the unique id, and the entity has a state
    IF sensor_unique_id(serial_no, alert) \notin DOMAIN states
    THEN PostOutcome("ValueError", states, fired)
    ELSE IF states[sensor_unique_id(serial_no, alert)] = NoState
    THEN PostOutcome("none", states, fired)
    ELSE PostOutcome("none",
                   [states EXCEPT ![sensor_unique_id(serial_no, alert)] = "on"],
                   Append(fired, HassEvent(alert)))

\* get_isapi_device, update_alert_channel and trigger_sensor on a parsed alert
deliver(entry_list, states, fired, request, alert) ==
    IF alert.raised # "none" THEN PostOutcome(alert.raised, states, fired)
    ELSE IF get_isapi_device(entry_list, request.remote, request.mac) = 0
    THEN PostOutcome("ValueError", states, fired)
    ELSE LET device == entry_list[get_isapi_device(entry_list, request.remote,
                                                   request.mac)]
         IN  trigger_sensor(states, fired, device.serial_no,
                            [alert EXCEPT !.channel_id =
                                update_alert_channel(device.cameras, @)])

\* the body of EventNotificationsView.post up to its except clause
post(entry_list, states, fired, request) ==
    LET xml == parse_event_request(request.content_type, request.body)
    IN  IF xml.raised # "none" THEN PostOutcome(xml.raised, states, fired)
        ELSE IF request.body.kind = "garbage"
        THEN PostOutcome("ExpatError", states, fired)
        ELSE deliver(entry_list, states, fired, request,
                     parse_event_notification(request.body.alert))

\* largest number of events on the bus the model follows
MaxFired == 1

NoPost == [request |-> "none"]

NotifyIdle ==
    /\ entries = <<>>
    /\ sensors = [id \in Registry |-> "off"]
    /\ bus = <<>>
    /\ posted = NoPost

\* EventNotificationsView.post: the except clause logs what was raised and
\* the response is 200 in every case
Post ==
    \E request \in PostRequests :
        \E done \in {post(entries, sensors, bus, request)} :
            /\ Len(done.bus) <= MaxFired
            /\ sensors' = done.sensors
            /\ bus' = done.bus
            /\ posted' = [request |-> request, logged |-> done.raised,
                          escaped |-> "none", status |-> 200]
            /\ UNCHANGED <<entries, notNotify>>

(***************************************************************************)
(* Snapshots: ISAPIClient.get_camera_image                                 *)
(***************************************************************************)
\* the streams of the device: main and sub stream of channel 1, main of 2
StreamIds == {101, 102, 201}

\* the replies to a picture request: an image, nothing (request_bytes logs
\* an httpx error and yields no chunk), a ResponseStatus document with its
\* statusCode, an XML document without statusCode
PictureReplies == {"image", "empty", "xml3", "xml4", "xml6", "xml"}

IsXml(data) == data \in {"xml3", "xml4", "xml6", "xml"}

\* int(deep_get(error, "ResponseStatus.statusCode")); 0 stands for the None
\* deep_get returns when the document has no statusCode
status_code(data) ==
    CASE data = "xml3" -> 3
      [] data = "xml4" -> 4
      [] data = "xml6" -> 6
      [] OTHER -> 0

\* statusCode of 'Device Error'
DeviceError == 3

\* statusCode of 'Invalid XML Content'
InvalidXmlContent == 6

\* a 'Device Error' reply is retried while attempt is below it
MaxAttempt == 2

\* get_camera_image asking the primary endpoint whatever the flag says
picture_url_primary(stream_id, use_alternate_picture_url) ==
    "Streaming/channels/" \o ToString(stream_id) \o "/picture"

\* the endpoint get_camera_image asks
picture_url(stream_id, use_alternate_picture_url) ==
    IF use_alternate_picture_url
    THEN "ContentMgmt/StreamingProxy/channels/" \o ToString(stream_id) \o "/picture"
    ELSE "Streaming/channels/" \o ToString(stream_id) \o "/picture"

\* no get_camera_image call is running
IdleSnap ==
    [pc |-> "idle", stream |-> 0, attempt |-> 0, log |-> <<>>, data |-> "none",
     retries |-> 0, result |-> "none"]

SnapshotIdle ==
    /\ streams = [s \in StreamIds |-> FALSE]
    /\ snap = IdleSnap

\* camera.py: async_camera_image calls get_camera_image(stream) with attempt 0
GetCameraImage ==
    \E s \in StreamIds :
        /\ snap.pc = "idle"
        /\ snap' = [IdleSnap EXCEPT !.pc = "request", !.stream = s]
        /\ UNCHANGED <<streams, transportVars, notSnapshot>>

\* one picture request of get_camera_image and what the call does with the
\* reply: return it, switch to the alternate endpoint, or try again
PictureRequest ==
    \E data \in PictureReplies :
        LET s == snap.stream
            sent == [snap EXCEPT !.log = Append(@, picture_url(s, streams[s])),
                                 !.data = data]
        IN  /\ snap.pc = "request"
            /\ auth_method' = auth_for_request(auth_method, DigestProbe)
            /\ IF ~IsXml(data)
               THEN /\ snap' = [sent EXCEPT !.pc = "done", !.result = data]
                    /\ UNCHANGED streams
               ELSE IF status_code(data) = 0
               THEN /\ snap' = [sent EXCEPT !.pc = "done", !.result = "TypeError"]
                    /\ UNCHANGED streams
               ELSE IF status_code(data) = InvalidXmlContent /\ ~streams[s]
               THEN /\ streams' = [streams EXCEPT ![s] = TRUE]
                    /\ snap' = [sent EXCEPT !.attempt = 0]
               ELSE IF status_code(data) = DeviceError /\ snap.attempt < MaxAttempt
               THEN /\ snap' = [sent EXCEPT !.attempt = @ + 1, !.retries = @ + 1]
                    /\ UNCHANGED streams
               ELSE /\ snap' = [sent EXCEPT !.pc = "done", !.result = data]
                    /\ UNCHANGED streams
            /\ UNCHANGED <<pending_initialization, auth_token_expired,
                           reauth_started, poll_left, reply, handled, notSnapshot>>

\* the caller has the image, the error document or the exception
SnapshotReturn ==
    /\ snap.pc = "done"
    /\ snap' = IdleSnap
    /\ UNCHANGED <<streams, transportVars, notSnapshot>>

(***************************************************************************)
(* get_cameras of a device that is no NVR, as a function of the reply      *)
(***************************************************************************)
\* the first branch of get_cameras: the cameras it appends and the
\* is_multi_channel it sets, from what request() did with Streaming/channels
\* and the videoInputChannelID values the reply lists
get_cameras_direct(outcome, channel_ids, serial_no) ==
    [cameras |-> direct_cameras(Fetched(outcome, channel_ids, {}), serial_no),
     is_multi_channel |-> Cardinality(Fetched(outcome, channel_ids, {})) > 1]

\* the Streaming/channels replies: no channel, channel 1, another channel,
\* two channels; returned, or replaced by {} after a suppressed error
CameraCalls ==
    { [op |-> "get_cameras", outcome |-> o, channel_ids |-> ids,
       serial_no |-> DeviceSerial] :
        o \in {"result", "empty"},
        ids \in StreamingChannelSets \cup {{MaxChannel}} }

ApplyGetCameras ==
    /\ call.op = "get_cameras" /\ ~ret.applied
    /\ ret' = Applied(get_cameras_direct(call.outcome, call.channel_ids,
                                         call.serial_no))
    /\ UNCHANGED <<call, notPure>>

(***************************************************************************)
(* The RTSP port of a device set up from a config entry                    *)
(***************************************************************************)
\* the forced port stored in the entry data; 0 stands for no stored value
StoredPorts == {0, 554, 5151}

\* the entry data: the force-RTSP-port option and the stored forced port
EntryData ==
    { [force_rtsp_port |-> f, rtsp_port_forced |-> p] :
        f \in BOOLEAN, p \in StoredPorts }

\* HikvisionDevice.__init__: the rtsp_port_forced it hands to the client
device_rtsp_port_forced(config) == config.rtsp_port_forced

\* HikvisionDevice.__init__ followed by get_protocols: protocols.rtsp_port
\* after the setup
setup_rtsp_port(config, outcome, items) ==
    get_protocols(Fetched(outcome, items, <<>>),
                  device_rtsp_port_forced(config),
                  Constructed.protocols.rtsp_port)

SetupCalls ==
    { [op |-> "setup_rtsp_port", config |-> c, outcome |-> o, items |-> i] :
        c \in EntryData, o \in {"result", "empty"}, i \in AdminAccessLists }

ApplySetupRtspPort ==
    /\ call.op = "setup_rtsp_port" /\ ~ret.applied
    /\ ret' = Applied(setup_rtsp_port(call.config, call.outcome, call.items))
    /\ UNCHANGED <<call, notPure>>

(***************************************************************************)
(* deep_get on parsed replies                                              *)
(***************************************************************************)
\* the mappings with keys among keys and values among values
Dicts(keys, values) ==
    { DictV(f) : f \in UNION { [K -> values] : K \in SUBSET keys } }

\* what a reply holds below a key: a text, None (an empty element), a list
\* of texts, an empty list
Leaves ==
    { StrV("x"), NoneV, ListV(<<StrV("x"), StrV("y")>>), ListV(<<>>) }

\* the replies: mappings nested up to three deep under the keys a, b and c,
\* with a leaf in the place of a mapping at every depth
Replies ==
    Dicts({"a"}, Leaves \cup
      Dicts({"b"}, Leaves \cup
        Dicts({"c"}, Leaves \cup {DictV([k \in {"d"} |-> StrV("x")])})))

DeepPaths ==
    { <<"a">>, <<"a", ".", "b">>, <<"a", ".", "b", ".", "c">>,
      <<"b", ".", "c">> }

DeepGetCalls ==
    { [op |-> "deep_get", dictionary |-> d, path |-> p, default |-> v] :
        d \in Replies, p \in DeepPaths, v \in {ListV(<<>>), NoneV} }

ApplyDeepGet ==
    /\ call.op = "deep_get" /\ ~ret.applied
    /\ ret' = Applied(deep_get(call.dictionary, call.path, call.default))
    /\ UNCHANGED <<call, notPure>>

(***************************************************************************)
(* ISAPIClient.get_camera_streams                                          *)
(***************************************************************************)
\* STREAM_TYPE: the stream type ids, in the order of the dictionary
STREAM_TYPE == <<1, 2, 3, 4>>

\* f"{channel_id}0{stream_type_id}" read as a number
stream_id(channel_id, stream_type_id) == channel_id * 100 + stream_type_id

\* what the device answers for the four variants of a channel
StreamStatuses == [DOMAIN STREAM_TYPE -> DiscoveryStatuses \cup {FORBIDDEN}]

\* the loop of get_camera_streams from the variant at position i on:
\* probed counts the requests sent, raised is the exception that left the loop
RECURSIVE camera_streams_from(_, _, _, _, _)
camera_streams_from(i, channel_id, statuses, pending, found) ==
    IF i > Len(STREAM_TYPE)
    THEN [raised |-> "none", probed |-> i - 1, streams |-> found]
    ELSE LET outcome == request_outcome(statuses[i], pending)
         IN  IF IsException(outcome)
             THEN [raised |-> outcome, probed |-> i, streams |-> found]
             ELSE camera_streams_from(i + 1, channel_id, statuses, pending,
                      IF outcome = "empty" THEN found
                      ELSE Append(found,
                                  [id |-> stream_id(channel_id, STREAM_TYPE[i]),
                                   type_id |-> STREAM_TYPE[i]]))

\* get_camera_streams leaving the loop at the first variant without a
\* StreamingChannel
get_camera_streams_first_gap(channel_id, statuses, pending) ==
    LET gaps == {i \in DOMAIN STREAM_TYPE : ~IsSuccess(statuses[i])}
        last == IF gaps = {} THEN Len(STREAM_TYPE)
                ELSE (CHOOSE i \in gaps : \A j \in gaps : i <= j) - 1
        whole == camera_streams_from(1, channel_id, statuses, pending, <<>>)
    IN  IF whole.raised # "none" THEN whole
        ELSE [whole EXCEPT !.probed = last,
                           !.streams = SelectSeq(whole.streams,
                                           LAMBDA st : st.type_id <= last)]

\* ISAPIClient.get_camera_streams(channel_id)
get_camera_streams(channel_id, statuses, pending) ==
    camera_streams_from(1, channel_id, statuses, pending, <<>>)

StreamCalls ==
    { [op |-> "get_camera_streams", channel_id |-> c, statuses |-> st,
       pending |-> p] :
        c \in {1, MaxChannel}, st \in StreamStatuses, p \in BOOLEAN }

ApplyGetCameraStreams ==
    /\ call.op = "get_camera_streams" /\ ~ret.applied
    /\ ret' = Applied(get_camera_streams(call.channel_id, call.statuses,
                                         call.pending))
    /\ UNCHANGED <<call, notPure>>

(***************************************************************************)
(* EventsCoordinator._async_update_data as a function of the replies       *)
(***************************************************************************)
\* an event of a camera's or of the device's events_info, as the poll reads it
PollEvent(unique_id, disabled) == [unique_id |-> unique_id, disabled |-> disabled]

CameraPollEvents ==
    { <<>>, <<PollEvent("ds_1_motiondetection", FALSE)>>,
      <<PollEvent("ds_1_motiondetection", TRUE)>> }

DevicePollEvents ==
    { <<>>, <<PollEvent("ds_1_io", FALSE)>> }

\* the storage list the device holds before the poll, and the one the device
\* reports in ContentMgmt/Storage
StorageLists == { <<>>, <<"hdd1">> }

DeviceStorage == <<"hdd1", "nas1">>

\* the poll fetching the state of a disabled event too
polls_event_always(event) == TRUE

\* `if event.disabled: continue`
polls_event(event) == ~event.disabled

\* the things one poll goes through, in its order: the cameras' events, the
\* device's events, the output ports, the storage list
PollSequence(camera_events, device_events, output_ports, serial_no) ==
    [i \in 1..Len(camera_events) |->
        [kind |-> "event", id |-> "switch." \o camera_events[i].unique_id,
         disabled |-> camera_events[i].disabled]]
    \o [i \in 1..Len(device_events) |->
        [kind |-> "event", id |-> "switch." \o device_events[i].unique_id,
         disabled |-> device_events[i].disabled]]
    \o [i \in 1..output_ports |->
        [kind |-> "port",
         id |-> "switch." \o Text(Slugify(Lower(serial_no))) \o "_"
                  \o ToString(i) \o "_alarm_output",
         disabled |-> FALSE]]
    \o <<[kind |-> "storage", id |-> "storage", disabled |-> FALSE]>>

\* the poll from its i-th item on.  An event or a port that answers gives
\* its state (the device reports every one as on), and gives off when
\* request() returned {} for a suppressed error; an exception goes to
\* handle_exception and the loop goes on
RECURSIVE poll_from(_, _, _, _, _)
poll_from(i, items, statuses, pending, acc) ==
    IF i > Len(items) THEN acc
    ELSE LET item == items[i]
             outcome == request_outcome(statuses[i], pending)
             asked == [acc EXCEPT !.requested = Append(@, item.id)]
             next ==
                 IF ~polls_event(item) THEN acc
                 ELSE IF IsException(outcome)
                 THEN [asked EXCEPT !.handled = Append(@, outcome)]
                 ELSE IF item.kind = "storage"
                 THEN [asked EXCEPT !.storage =
                          Fetched(outcome, DeviceStorage, <<>>)]
                 ELSE [asked EXCEPT !.data =
                          Append(@, [id |-> item.id,
                                     value |-> outcome = "result"])]
         IN  poll_from(i + 1, items, statuses, pending, next)

\* EventsCoordinator._async_update_data(): the data it returns, the requests
\* it sent, the exceptions it handed to handle_exception and device.storage
events_poll(items, statuses, pending, storage) ==
    poll_from(1, items, statuses, pending,
              [data |-> <<>>, requested |-> <<>>, handled |-> <<>>,
               storage |-> storage])

PollCalls ==
    UNION { { [op |-> "events_poll",
               items |-> PollSequence(ce, de, n, DeviceSerial),
               statuses |-> st, pending |-> p, storage |-> prev] :
                 st \in [1..(Len(ce) + Len(de) + n + 1) -> DiscoveryStatuses],
                 p \in BOOLEAN, prev \in StorageLists } :
            ce \in CameraPollEvents, de \in DevicePollEvents, n \in {0, 1} }

ApplyEventsPoll ==
    /\ call.op = "events_poll" /\ ~ret.applied
    /\ ret' = Applied(events_poll(call.items, call.statuses, call.pending,
                                  call.storage))
    /\ UNCHANGED <<call, notPure>>

(***************************************************************************)
(* ISAPIClient.set_alarm_server                                            *)
(***************************************************************************)
DigitChars == <<"0","1","2","3","4","5","6","7","8","9">>

IsDigit(c) == \E i \in DOMAIN DigitChars : DigitChars[i] = c

DigitValue(c) == (CHOOSE i \in DOMAIN DigitChars : DigitChars[i] = c) - 1

\* int(text) of a text of decimal digits
RECURSIVE DecimalValue(_)
DecimalValue(s) ==
    IF s = <<>> THEN 0
    ELSE DecimalValue(SubSeq(s, 1, Len(s) - 1)) * 10 + DigitValue(s[Len(s)])

\* text.split("."), the parts kept as character sequences
RECURSIVE SplitLabels(_, _)
SplitLabels(text, label) ==
    IF text = <<>> THEN <<label>>
    ELSE IF Head(text) = "." THEN <<label>> \o SplitLabels(Tail(text), <<>>)
    ELSE SplitLabels(Tail(text), Append(label, Head(text)))

\* one part of a dotted quad: one to three digits, no leading zero, at most 255
is_octet(s) ==
    /\ s # <<>> /\ Len(s) <= 3
    /\ \A i \in DOMAIN s : IsDigit(s[i])
    /\ (Len(s) > 1 => s[1] # "0")
    /\ DecimalValue(s) <= 255

\* ipaddress.ip_address(text) returns (an IPv4 address) instead of raising
\* ValueError; the texts followed hold no colon, so none is an IPv6 address
is_ip_address(text) ==
    LET parts == SplitLabels(text, <<>>)
    IN  Len(parts) = 4 /\ \A i \in DOMAIN parts : is_octet(parts[i])

\* urlparse(base_url): the scheme, .hostname (lower-cased) and .port (None
\* when base_url names no port)
Address(scheme, host, port) ==
    [scheme |-> scheme, hostname |-> Lower(host), port |-> port]

\* str(address.port)
port_text(port) == IF port = NoneV THEN StrV("None") ELSE StrValue(port.value)

\* the parsed HttpHostNotification node is a mapping from its element names
\* to their values: dict.get, item assignment and del
Get(host, key) == IF key \in DOMAIN host THEN host[key] ELSE NoneV

SetItem(host, key, value) ==
    [k \in DOMAIN host \cup {key} |-> IF k = key THEN value ELSE host[k]]

DelItem(host, key) == [k \in DOMAIN host \ {key} |-> host[k]]

\* the address the device holds, as set_alarm_server reads it
old_address(host) ==
    IF Get(host, "addressingFormatType") = StrV("ipaddress")
    THEN Get(host, "ipAddress")
    ELSE Get(host, "hostname")

\* the test that makes set_alarm_server return without a PUT
alarm_server_unchanged(host, address, path) ==
    /\ host["protocolType"] = StrV(Text(Upper(address.scheme)))
    /\ old_address(host) = StrV(Text(address.hostname))
    /\ Get(host, "portNo") = port_text(address.port)
    /\ host["url"] = StrV(path)

\* address.port or (443 if address.scheme == "https" else 80)
alarm_server_port(address) ==
    IF address.port # NoneV /\ address.port.value # 0
    THEN address.port
    ELSE IntValue(IF Text(address.scheme) = "https" THEN 443 ELSE 80)

\* the host node after the assignments of set_alarm_server
alarm_server_host(host, address, path) ==
    LET common ==
            SetItem(SetItem(SetItem(host, "url", StrV(path)),
                            "protocolType", StrV(Text(Upper(address.scheme)))),
                    "parameterFormatType", StrV("XML"))
        addressed ==
            IF is_ip_address(address.hostname)
            THEN DelItem(SetItem(SetItem(common, "addressingFormatType",
                                         StrV("ipaddress")),
                                 "ipAddress", StrV(Text(address.hostname))),
                         "hostName")
            ELSE SetItem(DelItem(SetItem(common, "addressingFormatType",
                                         StrV("hostname")),
                                 "ipAddress"),
                         "hostName", StrV(Text(address.hostname)))
    IN  SetItem(SetItem(addressed, "portNo", alarm_server_port(address)),
                "httpAuthenticationMethod", StrV("none"))

\* xmltodict.unparse and the parse of the next GET: a number comes back as
\* its text
xml_text(value) ==
    IF "type" \in DOMAIN value /\ value.type = "int"
    THEN StrValue(value.value)
    ELSE value

\* the node the device holds once it has accepted the PUT
device_stores(host) == [k \in DOMAIN host |-> xml_text(host[k])]

\* the reply {} to GET Event/notification/httpHosts
NoHttpHosts == <<>>

\* one call of set_alarm_server against a device that holds state.host:
\* whether it sent a PUT, the body it sent and what the device holds after
set_alarm_server(state, address, path) ==
    IF state.host = NoHttpHosts
    THEN [state EXCEPT !.sent = Append(@, FALSE)]
    ELSE IF alarm_server_unchanged(state.host, address, path)
    THEN [state EXCEPT !.sent = Append(@, FALSE)]
    ELSE LET body == alarm_server_host(state.host, address, path)
         IN  [host |-> device_stores(body),
              sent |-> Append(state.sent, TRUE),
              puts |-> Append(state.puts, body)]

\* the notification hosts a device holds before the integration sets its own
HttpHost(format, key, text, port) ==
    (key :> StrV(text)) @@
    [id |-> StrV("1"), url |-> StrV("/"), protocolType |-> StrV("HTTP"),
     parameterFormatType |-> StrV("XML"),
     addressingFormatType |-> StrV(format), portNo |-> StrValue(port),
     httpAuthenticationMethod |-> StrV("none")]

AlarmServerHosts ==
    { NoHttpHosts,
      HttpHost("ipaddress", "ipAddress", "0.0.0.0", 80),
      HttpHost("hostname", "hostName", "old.lan", 8123) }

\* base_url: http or https, an IPv4 address, a host name or a dotted text
\* that is no address, with a port or without
AlarmSchemes == { <<"h","t","t","p">>, <<"h","t","t","p","s">> }

AlarmHostTexts ==
    { <<"1",".","0",".","0",".","1","1">>,
      <<"h","a",".","l","a","n">>,
      <<"1",".","0",".","0",".","3","0","0">> }

AlarmPorts == { NoneV, IntValue(8123) }

ALARM_SERVER_PATH == "/api/hikvision"

\* set_alarm_server is called at most MaxAlarmCalls times with one base_url
MaxAlarmCalls == 2

AlarmCalls ==
    { [op |-> "set_alarm_server",
       alarm |-> [address |-> Address(scheme, host, port),
                  path |-> ALARM_SERVER_PATH, host |-> held]] :
        scheme \in AlarmSchemes, host \in AlarmHostTexts, port \in AlarmPorts,
        held \in AlarmServerHosts }

\* the first call, on the node the device held
ApplySetAlarmServer ==
    /\ call.op = "set_alarm_server" /\ ~ret.applied
    /\ ret' = Applied(set_alarm_server(
                  [host |-> call.alarm.host, sent |-> <<>>, puts |-> <<>>],
                  call.alarm.address, call.alarm.path))
    /\ UNCHANGED <<call, notPure>>

\* a later call with the same arguments, on what the device holds by then
RepeatSetAlarmServer ==
    /\ call.op = "set_alarm_server" /\ ret.applied
    /\ Len(ret.value.sent) < MaxAlarmCalls
    /\ ret' = Applied(set_alarm_server(ret.value, call.alarm.address,
                                        call.alarm.path))
    /\ UNCHANGED <<call, notPure>>

(***************************************************************************)
(* Specifications                                                          *)
(***************************************************************************)
NoCall == [op |-> "none"]

PureIdle == call = NoCall /\ ret = NotApplied

\* the client as ISAPIClient.__init__ and HikvisionDevice.__init__ leave it
TransportInit ==
    /\ auth_method = NoAuth
    /\ pending_initialization = FALSE
    /\ auth_token_expired = FALSE
    /\ reauth_started = FALSE
    /\ poll_left = 0
    /\ reply = NoReply
    /\ handled = NotHandled
    /\ chunks = NoChunks

\* the device model as the constructors leave it, without a forced port
ForcedPorts == {0, 5151}

DiscoveryInit ==
    /\ hw_pc = "new"
    /\ device_info = Constructed.device_info
    /\ capabilities = Constructed.capabilities
    /\ system_capabilities = Constructed.system_capabilities
    /\ cameras = Constructed.cameras
    /\ supported_events = Constructed.supported_events
    /\ events_info = Constructed.events_info
    /\ protocols = Constructed.protocols

DiscoveryIdle == DiscoveryInit /\ rtsp_port_forced = 0

\* no event document followed, no caller in set_event_enabled_state
ToggleIdle ==
    /\ docs = DocsOf([url \in ToggleUrls |-> "false"])
    /\ tasks = [t \in Tasks |-> IdleTask]

\* the pure functions on every bounded input
InitPure ==
    /\ call \in UrlCalls \cup TriggerCalls \cup AlertCalls \cup ChannelCalls
                \cup CameraCalls \cup SetupCalls \cup DeepGetCalls
                \cup StreamCalls \cup PollCalls \cup AlarmCalls
    /\ ret = NotApplied
    /\ TransportInit
    /\ DiscoveryIdle
    /\ ToggleIdle
    /\ SnapshotIdle
    /\ NotifyIdle

NextPure ==
    \/ ApplyGetEventUrl
    \/ ApplyCreateEventInfo
    \/ ApplyParseEventNotification
    \/ ApplyUpdateAlertChannel
    \/ ApplyGetCameras
    \/ ApplySetupRtspPort
    \/ ApplyDeepGet
    \/ ApplyGetCameraStreams
    \/ ApplyEventsPoll
    \/ ApplySetAlarmServer
    \/ RepeatSetAlarmServer

SpecPure == InitPure /\ [][NextPure]_vars

\* the transport under every sequence of device replies
InitTransport ==
    /\ PureIdle /\ TransportInit /\ DiscoveryIdle /\ ToggleIdle
    /\ SnapshotIdle /\ NotifyIdle

NextTransport ==
    \/ BeginInitialization
    \/ EndInitialization
    \/ Request
    \/ RequestBytes
    \/ PollStart
    \/ PollItem
    \/ SecondaryItem

SpecTransport == InitTransport /\ [][NextTransport]_vars

\* the setup of one device, with and without a forced RTSP port, under every
\* sequence of device replies
InitDiscovery ==
    /\ PureIdle /\ TransportInit /\ DiscoveryInit /\ ToggleIdle
    /\ SnapshotIdle /\ NotifyIdle
    /\ rtsp_port_forced \in ForcedPorts

NextDiscovery ==
    \/ (hw_pc = "new" /\ BeginInitialization)
    \/ HwDeviceInfo
    \/ HwCapabilities
    \/ HwCameras
    \/ HwEvents
    \/ HwProtocols
    \/ InitCoordinators
    \/ (hw_pc = "running" /\ EndInitialization)
    \/ GetDeviceInfo

SpecDiscovery == InitDiscovery /\ [][NextDiscovery]_vars

\* the toggling on a device that is set up, with and without mutex checking,
\* from every state of its event documents
InitToggle ==
    /\ PureIdle
    /\ auth_method = "Digest"
    /\ pending_initialization = FALSE
    /\ auth_token_expired = FALSE
    /\ reauth_started = FALSE
    /\ poll_left = 0
    /\ reply = NoReply
    /\ handled = NotHandled
    /\ chunks = NoChunks
    /\ hw_pc = "running"
    /\ rtsp_port_forced = 0
    /\ device_info = NewDeviceInfo(DeviceSerial)
    /\ \E mutex \in BOOLEAN :
           /\ capabilities =
                [NewCapabilities EXCEPT !.support_event_mutex_checking = mutex,
                                        !.support_alarm_server = TRUE]
           /\ system_capabilities = DeviceCap(0, 0, mutex, FALSE, FALSE)
    /\ supported_events = ToggleEvents
    /\ events_info = selected_events(ToggleEvents, 0)
    /\ cameras =
         [c \in DOMAIN ToggleCameras |->
            [ToggleCameras[c] EXCEPT !.events_info =
                selected_events(ToggleEvents, ToggleCameras[c].id)]]
    /\ protocols = Constructed.protocols
    /\ \E enabled \in DeviceDocs : docs = DocsOf(enabled)
    /\ tasks = [t \in Tasks |-> IdleTask]
    /\ SnapshotIdle
    /\ NotifyIdle

NextToggle ==
    \/ (\A t \in Tasks : tasks[t].pc = "idle") /\ BeginInitialization
    \/ (\A t \in Tasks : tasks[t].pc = "idle") /\ EndInitialization
    \/ \E t \in Tasks : SetEventEnabledState(t)
    \/ \E t \in Tasks : MutexProbe(t)
    \/ \E t \in Tasks : GetEventState(t)
    \/ \E t \in Tasks : PutEventState(t)
    \/ \E t \in Tasks : Return(t)
    \/ DeviceChange

SpecToggle == InitToggle /\ [][NextToggle]_vars

\* the snapshots of a device that is set up, under every sequence of replies
\* to the picture requests
InitSnapshot ==
    /\ PureIdle
    /\ auth_method = "Digest"
    /\ pending_initialization = FALSE
    /\ auth_token_expired = FALSE
    /\ reauth_started = FALSE
    /\ poll_left = 0
    /\ reply = NoReply
    /\ handled = NotHandled
    /\ chunks = NoChunks
    /\ DiscoveryIdle
    /\ ToggleIdle
    /\ SnapshotIdle
    /\ NotifyIdle

NextSnapshot ==
    \/ GetCameraImage
    \/ PictureRequest
    \/ SnapshotReturn

SpecSnapshot == InitSnapshot /\ [][NextSnapshot]_vars

\* the notification POSTs of the devices, for every set of config entries
\* and every registered sensor with or without a state
InitNotify ==
    /\ PureIdle /\ TransportInit /\ DiscoveryIdle /\ ToggleIdle
    /\ SnapshotIdle
    /\ entries \in EntryLists
    /\ sensors \in SensorStates
    /\ bus = <<>>
    /\ posted = NoPost

NextNotify == Post

SpecNotify == InitNotify /\ [][NextNotify]_vars

\* two callers inside set_event_enabled_state at once: each switch entity
\* awaits its own call, and the event loop runs another call at every await
RaceTasks == {"t1", "t2"}

\* the event each caller enables on channel 1: motion detection and
\* intrusion detection, which the device does not run together
RaceEvent(t) ==
    CHOOSE e \in DOMAIN ToggleEvents :
        ToggleEvents[e].id = (IF t = "t1" THEN "motiondetection"
                              ELSE "fielddetection")

\* set_event_enabled_state(1, RaceEvent(t), True)
EnableExclusive(t) ==
    /\ SetEventEnabledState(t)
    /\ tasks'[t].event = RaceEvent(t)
    /\ tasks'[t].channel_id = 1
    /\ tasks'[t].is_enabled

\* a device with mutex checking whose documents respect the exclusion
InitRace ==
    /\ PureIdle
    /\ auth_method = "Digest"
    /\ pending_initialization = FALSE
    /\ auth_token_expired = FALSE
    /\ reauth_started = FALSE
    /\ poll_left = 0
    /\ reply = NoReply
    /\ handled = NotHandled
    /\ chunks = NoChunks
    /\ hw_pc = "running"
    /\ rtsp_port_forced = 0
    /\ device_info = NewDeviceInfo(DeviceSerial)
    /\ capabilities =
         [NewCapabilities EXCEPT !.support_event_mutex_checking = TRUE,
                                 !.support_alarm_server = TRUE]
    /\ system_capabilities = DeviceCap(0, 0, TRUE, FALSE, FALSE)
    /\ supported_events = ToggleEvents
    /\ events_info = selected_events(ToggleEvents, 0)
    /\ cameras =
         [c \in DOMAIN ToggleCameras |->
            [ToggleCameras[c] EXCEPT !.events_info =
                selected_events(ToggleEvents, ToggleCameras[c].id)]]
    /\ protocols = Constructed.protocols
    /\ \E enabled \in DeviceDocs :
           /\ \E t \in RaceTasks :
                  enabled[ToggleEvents[RaceEvent(t)].url] = "false"
           /\ docs = DocsOf(enabled)
    /\ tasks = [t \in RaceTasks |-> IdleTask]
    /\ SnapshotIdle
    /\ NotifyIdle

NextRace ==
    \/ \E t \in RaceTasks : EnableExclusive(t)
    \/ \E t \in RaceTasks : MutexProbe(t)
    \/ \E t \in RaceTasks : GetEventState(t)
    \/ \E t \in RaceTasks : PutEventState(t)

SpecRace == InitRace /\ [][NextRace]_vars

\* the requests of one EventsCoordinator poll of the device model: one for
\* every held event that is not disabled and one for the storage list (the
\* devices followed here have no output port)
poll_requests ==
    LET held == {events_info[k] : k \in DOMAIN events_info}
                \cup UNION { {cameras[c].events_info[k] :
                                 k \in DOMAIN cameras[c].events_info} :
                             c \in DOMAIN cameras }
    IN  Cardinality({i \in held : ~supported_events[i].disabled}) + 1

\* the events a device lists: none, or one alarm input that notifies the
\* surveillance center, or one that does not and is disabled for it
ReauthTriggerLists ==
    { <<>>, <<Trigger(<<"I","O">>, 0, 0, 1, 0, <<"center">>)>>,
      <<Trigger(<<"I","O">>, 0, 0, 1, 0, <<"email">>)>> }

\* EventsCoordinator._async_update_data starts on the device model
PollDevice ==
    /\ PollStart
    /\ poll_left' = poll_requests

\* the device answers the request of a poll item with 401
PollItemUnauthorized ==
    /\ PollItem
    /\ reply'.status = UNAUTHORIZED

\* the request of the SecondaryCoordinator of a device with alarm server
\* support, answered with 401
SecondaryItemUnauthorized ==
    /\ capabilities.support_alarm_server
    /\ SecondaryItem
    /\ reply'.status = UNAUTHORIZED

\* a device that is set up, with or without alarm server support and with
\* or without an enabled event, from the moment it answers 401 to everything
InitReauth ==
    /\ PureIdle
    /\ auth_method = "Digest"
    /\ pending_initialization = FALSE
    /\ auth_token_expired = FALSE
    /\ reauth_started = FALSE
    /\ poll_left = 0
    /\ reply = NoReply
    /\ handled = NotHandled
    /\ chunks = NoChunks
    /\ hw_pc = "running"
    /\ rtsp_port_forced = 0
    /\ device_info = NewDeviceInfo(DeviceSerial)
    /\ \E alarm_server \in BOOLEAN :
           capabilities =
               [NewCapabilities EXCEPT !.support_alarm_server = alarm_server]
    /\ system_capabilities = Constructed.system_capabilities
    /\ \E triggers \in ReauthTriggerLists :
           /\ supported_events =
                  get_device_event_capabilities(listed_events(triggers, FALSE),
                                                0, DeviceSerial)
           /\ events_info = selected_events(listed_events(triggers, FALSE), 0)
    /\ cameras = <<>>
    /\ protocols = Constructed.protocols
    /\ ToggleIdle
    /\ SnapshotIdle
    /\ NotifyIdle

NextReauth ==
    \/ PollDevice
    \/ PollItemUnauthorized
    \/ SecondaryItemUnauthorized

\* the coordinators' timers fire again and again, and a poll that has
\* started goes through its items
SpecReauth ==
    /\ InitReauth /\ [][NextReauth]_vars
    /\ WF_vars(PollDevice)
    /\ WF_vars(PollItemUnauthorized)
    /\ WF_vars(SecondaryItemUnauthorized)

(***************************************************************************)
(* Properties                                                              *)
(***************************************************************************)
\* the "slug" of each event of isapi/const.py, as written there
SlugText(event_id) ==
    CASE event_id = "motiondetection" -> "motionDetection"
      [] event_id = "tamperdetection" -> "tamperDetection"
      [] event_id = "videoloss" -> "videoLoss"
      [] event_id = "scenechangedetection" -> "SceneChangeDetection"
      [] event_id = "fielddetection" -> "FieldDetection"
      [] event_id = "linedetection" -> "LineDetection"
      [] event_id = "regionentrance" -> "regionEntrance"
      [] event_id = "regionexiting" -> "regionExiting"
      [] event_id = "io" -> "inputs"
      [] event_id = "pir" -> "WLAlarm/PIR"

BasicEvents == {"motiondetection", "tamperdetection", "videoloss"}

SmartEvents == {"scenechangedetection", "fielddetection", "linedetection",
                "regionentrance", "regionexiting"}

\* the path the family rule gives an event of the canonical table
FamilyUrl(event_id, channel_id, io_port_id, is_proxy) ==
    LET ch == ToString(channel_id)
        port == ToString(io_port_id)
        slug == SlugText(event_id)
    IN  CASE event_id \in BasicEvents ->
               IF is_proxy
               THEN "ContentMgmt/InputProxy/channels/" \o ch \o "/video/" \o slug
               ELSE "System/Video/inputs/channels/" \o ch \o "/" \o slug
          [] event_id = "io" ->
               IF is_proxy
               THEN "ContentMgmt/IOProxy/" \o slug \o "/" \o port
               ELSE "System/IO/" \o slug \o "/" \o port
          [] event_id = "pir" -> slug
          [] event_id \in SmartEvents -> "Smart/" \o slug \o "/" \o ch

\* C9: for every event id of the canonical table and every channel id, io
\* port id and proxy flag, get_event_url returns the path of the event's
\* family: basic, io (proxied or direct), pir (the fixed slug), smart.
C9_UrlSynthesis ==
    (call.op = "get_event_url" /\ ret.applied /\ call.event_id \in DOMAIN EVENTS)
        => ret.value = FamilyUrl(call.event_id, call.channel_id,
                                 call.io_port_id, call.is_proxy)

\* C9 witness: the URL of a proxied motion detection on the last channel
C9_Witness ==
    /\ call.op = "get_event_url" /\ ret.applied
    /\ call.event_id = "motiondetection" /\ call.is_proxy
    /\ call.channel_id = MaxChannel
    /\ ret.value = "ContentMgmt/InputProxy/channels/" \o ToString(MaxChannel)
                     \o "/video/motionDetection"

\* the event type is a spelling of the alias key k, in any letter case
IsSpellingOf(event_type, k) == Lower(event_type) = Lower(k)

\* C7: for every key of the alias table and every upper/lower-case spelling
\* of it, create_event_info and parse_event_notification both resolve the
\* event id to the table's target.
C7_AliasNormalization ==
    ret.applied =>
      \A k \in AliasKeys :
        /\ (/\ call.op = "create_event_info"
            /\ IsSpellingOf(call.event_trigger.eventType, k))
              => /\ ret.value # NoEvent
                 /\ ret.value.id = EVENTS_ALTERNATE_ID[Text(k)]
        /\ (/\ call.op = "parse_event_notification"
            /\ IsSpellingOf(call.alert.eventType, k))
              => /\ ret.value.raised = "none"
                 /\ ret.value.event_id = EVENTS_ALTERNATE_ID[Text(k)]

C4_StatusErrors ==
    reply.sent =>
      /\ reply.status = UNAUTHORIZED => reply.outcome = "ISAPIUnauthorizedError"
      /\ (~IsSuccess(reply.status) /\ reply.status \notin {UNAUTHORIZED, FORBIDDEN})
           => reply.outcome = IF reply.pending THEN "empty" ELSE "HTTPStatusError"

\* C4 witness: a 401 raised during initialization
C4_Witness ==
    /\ reply.sent /\ reply.pending /\ reply.status = UNAUTHORIZED
    /\ reply.outcome = "ISAPIUnauthorizedError"

\* C5 as claimed: every 401 answered to a request sent with the cached
\* scheme leaves that scheme invalidated once handle_exception has handled
\* it.
C5_Every401Invalidates ==
    (/\ handled.called /\ handled.ex = "ISAPIUnauthorizedError"
     /\ handled.auth_before # NoAuth /\ ~reply.probed)
        => auth_method = NoAuth

\* C5 amended: a 401 handled while auth_token_expired is false invalidates
\* the cached scheme; a 401 handled while auth_token_expired is true starts
\* the re-authentication flow and keeps the cached scheme.
C5_First401Invalidates ==
    (/\ handled.called /\ handled.ex = "ISAPIUnauthorizedError"
     /\ handled.auth_before # NoAuth)
        => IF handled.expired_before
           THEN auth_method = handled.auth_before /\ reauth_started
           ELSE auth_method = NoAuth

\* C5 witness: the first 401 of a session with a detected scheme
C5_Witness ==
    /\ handled.called /\ handled.ex = "ISAPIUnauthorizedError"
    /\ handled.auth_before = "Digest" /\ ~handled.expired_before
    /\ ~reply.probed
    /\ auth_method = NoAuth

\* the discovery has completed: get_hardware_info has returned
Discovered == hw_pc \in {"ready", "running"}

\* C6 as claimed: with a forced RTSP port configured, protocols.rtsp_port
\* after get_protocols is the forced port, whatever the device replied to
\* Security/adminAccesses.
C6_ForcedRtspPort ==
    (Discovered /\ rtsp_port_forced # 0)
        => protocols.rtsp_port.value = rtsp_port_forced

LacksCenter(notifications) ==
    \A i \in DOMAIN notifications : notifications[i] # "center"

\* the positions in supported_events of the events that the device-level
\* events_info and the cameras' events_info hold
HeldEvents ==
    {events_info[i] : i \in DOMAIN events_info}
        \cup UNION { {cameras[c].events_info[i] : i \in DOMAIN cameras[c].events_info} :
                       c \in DOMAIN cameras }

\* C8 as claimed: after discovery and init_coordinators every EventInfo of
\* supported_events, and so of every events_info, is disabled exactly when
\* its notification list lacks "center".
C8_DisabledByDefault ==
    hw_pc = "running"
        => \A i \in DOMAIN supported_events :
               supported_events[i].disabled
                   <=> LacksCenter(supported_events[i].notifications)

\* C8 amended: after discovery and init_coordinators every EventInfo held by
\* the device-level events_info or by a camera's events_info is disabled
\* exactly when its notification list lacks "center"; an event of
\* supported_events that no events_info holds is not disabled.
C8_HeldEventsDisabledByDefault ==
    hw_pc = "running"
        => \A i \in DOMAIN supported_events :
               supported_events[i].disabled
                   <=> (i \in HeldEvents
                        /\ LacksCenter(supported_events[i].notifications))

\* C8 witness: a set-up device holding an event that is disabled for lack of
\* "center" and one that is enabled for having it
C8_Witness ==
    /\ hw_pc = "running"
    /\ \E i \in HeldEvents :
           /\ supported_events[i].disabled
           /\ LacksCenter(supported_events[i].notifications)
    /\ \E i \in HeldEvents :
           /\ ~supported_events[i].disabled
           /\ ~LacksCenter(supported_events[i].notifications)

\* C10 as claimed: once get_hardware_info has completed, is_nvr is true
\* exactly when the analog and digital camera inputs sum to more than 1, and
\* it stays so after any later operation, a repeated get_device_info
\* included.
C10_NvrClassification ==
    Discovered
        => (device_info.is_nvr
              <=> capabilities.analog_cameras_inputs
                    + capabilities.digital_cameras_inputs > 1)

\* a function name of a MutexFunctionList that names an event of the table,
\* by its id or by an alias
KnownFunction(name) ==
    name \in DOMAIN EVENTS \/ name \in DOMAIN EVENTS_ALTERNATE_ID

HasPut(task) == \E i \in DOMAIN task.log : task.log[i] = "PUT"

\* C1. Mutex rejection: when the System/mutexFunction probe of an enabling
\* call on a channel other than 0 reports a conflicting event B of the event
\* table, the call ends with ISAPISetEventStateMutexError, whose first issue
\* names B and the channel list the device gave, and the probe is the only
\* request the call has sent: no GET and no PUT go to the event's URL.
C1_MutexRejection ==
    \A t \in Tasks :
        (/\ tasks[t].mutex_list # <<>>
         /\ KnownFunction(tasks[t].mutex_list[1].mutexFunction))
            => /\ tasks[t].pc = "done"
               /\ tasks[t].result = "ISAPISetEventStateMutexError"
               /\ tasks[t].issues[1].event_id = tasks[t].mutex_list[1].of
               /\ tasks[t].issues[1].channels = tasks[t].mutex_list[1].channelID
               /\ tasks[t].log = <<"POST">>
               /\ ~HasPut(tasks[t])

\* C1 witness: enabling motion detection on channel 1 of a device with mutex
\* checking is rejected because intrusion detection is enabled there
C1_Witness ==
    \E t \in Tasks :
        /\ tasks[t].pc = "done"
        /\ capabilities.support_event_mutex_checking
        /\ tasks[t].is_enabled /\ tasks[t].channel_id = 1
        /\ supported_events[tasks[t].event].id = "motiondetection"
        /\ tasks[t].result = "ISAPISetEventStateMutexError"
        /\ tasks[t].issues = <<MutexIssue("fielddetection", <<1>>)>>
        /\ docs[supported_events[tasks[t].event].url].enabled = "false"

\* C2. Idempotent toggling: when the GET of set_event_enabled_state returns
\* the event's document and the device reports the state the call asks for,
\* the call returns at once: it has sent no PUT and the step leaves the
\* device's documents as they are; this for every event with a URL and for
\* both target values.
C2_IdempotentToggling ==
    [][\A t \in Tasks :
          (/\ tasks[t].pc = "get"
           /\ tasks'[t].data # NoDoc
           /\ docs[supported_events[tasks[t].event].url].enabled
                = bool_to_str(tasks[t].is_enabled))
              => /\ tasks'[t].pc = "done"
                 /\ tasks'[t].result = "None"
                 /\ ~HasPut(tasks'[t])
                 /\ docs' = docs]_vars

\* C2 witness: a call that asked to enable an event the device reports as
\* enabled has returned after its GET
C2_Witness ==
    \E t \in Tasks :
        /\ tasks[t].pc = "done" /\ tasks[t].result = "None"
        /\ tasks[t].is_enabled /\ tasks[t].seen = "true"
        /\ tasks[t].log = <<"POST", "GET">>
        /\ docs[supported_events[tasks[t].event].url].enabled = "true"

\* the cameras of a list whose input_port is the alert's channel less the
\* offset
PortMatches(cams, channel_id) ==
    {i \in DOMAIN cams : cams[i].input_port = channel_id - IpChannelOffset}

AlertRawType(alert) ==
    IF alert.eventType = NoText \/ Text(alert.eventType) = "duration"
    THEN alert.relationEvent ELSE alert.eventType

\* the call is about an event id the canonical event table does not hold
UnknownAlert ==
    /\ call.op = "parse_event_notification"
    /\ AlertRawType(call.alert) # NoText
    /\ AlertEventId(AlertRawType(call.alert)) \notin DOMAIN EVENTS

UnknownUrl == call.op = "get_event_url" /\ call.event_id \notin DOMAIN EVENTS

UnknownTrigger ==
    /\ call.op = "create_event_info"
    /\ call.event_trigger.eventType # NoText
    /\ DiscoveredEventId(call.event_trigger.eventType) \notin DOMAIN EVENTS

\* C12 as stated: an event id absent from the canonical event table is
\* rejected with a raised error both by parse_event_notification and by
\* get_event_url during discovery; no AlertInfo and no EventInfo is produced
\* (a call that raises returns nothing, None included).
C12_UnknownIdRaised ==
    ret.applied =>
      /\ UnknownAlert => ret.value.raised # "none"
      /\ UnknownUrl => ret.value # NoUrl
      /\ UnknownTrigger => ret.value = NoEvent

\* C12 amended: for an event id absent from the canonical event table,
\* parse_event_notification raises (KeyError) and produces no AlertInfo;
\* get_event_url raises nothing and returns None, and create_event_info
\* produces an EventInfo of that id whose url is None.
C12_UnknownIdRaisedByParserOnly ==
    ret.applied =>
      /\ UnknownAlert => ret.value = Raised("KeyError")
      /\ UnknownUrl => ret.value = NoUrl
      /\ UnknownTrigger =>
            /\ ret.value # NoEvent
            /\ ret.value.id = DiscoveredEventId(call.event_trigger.eventType)
            /\ ret.value.url = NoUrl

\* C12 witness: a face detection trigger of channel 1 has become an EventInfo
\* without url
C12_Witness ==
    /\ UnknownTrigger /\ ret.applied
    /\ Text(call.event_trigger.eventType) = "facedetection"
    /\ call.event_trigger.videoInputChannelID = 1
    /\ ret.value # NoEvent
    /\ ret.value.id = "facedetection" /\ ret.value.channel_id = 1
    /\ ret.value.url = NoUrl

\* C13: every non-empty MutexFunctionList the mutex probe returns, whatever
\* function names it holds, ends the enable call with
\* ISAPISetEventStateMutexError carrying the conflicting event id and the
\* channel list; no other exception is raised for a mutex conflict.
C13_MutexErrorForEveryList ==
    \A t \in Tasks :
        (tasks[t].pc = "done" /\ tasks[t].mutex_list # <<>>)
            => /\ tasks[t].result = "ISAPISetEventStateMutexError"
               /\ tasks[t].issues[1].event_id = tasks[t].mutex_list[1].of
               /\ tasks[t].issues[1].channels = tasks[t].mutex_list[1].channelID

\* C14: within one get_camera_image call the picture request is repeated at
\* most 2 extra times because of 'Device Error' replies, for every sequence
\* of replies, and the call ends with a result.
C14_SnapshotRetryBound ==
    /\ snap.retries <= 2
    /\ snap.pc = "done" => snap.result # "none"

\* the step is a picture request for the stream s
RequestsPicture(s) == snap.pc = "request" /\ snap.stream = s /\ snap' # snap

\* C15: once the primary picture endpoint of a stream answers 'Invalid XML
\* Content' (statusCode 6) the stream's use_alternate_picture_url is true and
\* is never reset; every later picture request for the stream goes to
\* ContentMgmt/StreamingProxy/channels/{id}/picture; the flag of every other
\* stream is unchanged.
C15_AlternatePictureUrl ==
    [][\A s \in StreamIds :
         /\ streams[s] => streams'[s]
         /\ (/\ RequestsPicture(s) /\ ~streams[s]
             /\ snap'.data = "xml6") => streams'[s]
         /\ (RequestsPicture(s) /\ streams[s])
               => snap'.log[Len(snap'.log)] =
                    "ContentMgmt/StreamingProxy/channels/" \o ToString(s)
                      \o "/picture"
         /\ streams'[s] # streams[s]
               => /\ RequestsPicture(s)
                  /\ snap'.data = "xml6"
                  /\ snap'.log[Len(snap'.log)] =
                       "Streaming/channels/" \o ToString(s) \o "/picture"]_vars

\* C15 witness: a later call for stream 101 asks the alternate endpoint
\* first, while the other streams still use the primary one
C15_Witness ==
    /\ streams[101] /\ ~streams[102] /\ ~streams[201]
    /\ snap.stream = 101 /\ snap.pc = "done" /\ snap.result = "image"
    /\ snap.log = <<"ContentMgmt/StreamingProxy/channels/101/picture">>

\* the POST carries a Content-Type the view does not read
UnsupportedContentType(request) ==
    request.content_type \notin CONTENT_TYPE_XML \cup {"multipart/form-data"}

\* the POST carries no XML, or text that does not parse
UnparseableXml(request) == request.body.kind \in {"garbage", "empty"}

\* the alert names an event the canonical table does not hold
UnknownEventId(request) ==
    /\ request.body.kind = "alert"
    /\ AlertEventId(AlertRawType(request.body.alert)) \notin DOMAIN EVENTS

\* several or no entries are configured and no enabled one has the alert's
\* mac address or the sender's address
NoDeviceInstance(request) ==
    /\ Len(entries) # 1
    /\ \A i \in DOMAIN entries :
          \/ entries[i].disabled_by
          \/ /\ entries[i].mac_address # request.mac
             /\ entries[i].host # request.remote

\* the alert is read and a device found, but the registry has no sensor of
\* the alert's unique id
NoEntity(request) ==
    /\ request.body.kind = "alert"
    /\ ~UnknownEventId(request)
    /\ get_isapi_device(entries, request.remote, request.mac) # 0
    /\ LET device == entries[get_isapi_device(entries, request.remote,
                                              request.mac)]
           alert == parse_event_notification(request.body.alert)
       IN  sensor_unique_id(device.serial_no,
                            [alert EXCEPT !.channel_id =
                                update_alert_channel(device.cameras, @)])
             \notin Registry

Unprocessable(request) ==
    \/ UnsupportedContentType(request)
    \/ UnparseableXml(request)
    \/ UnknownEventId(request)
    \/ NoDeviceInstance(request)
    \/ NoEntity(request)

\* C16: a notification POST that cannot be processed (unsupported content
\* type, unparseable XML, unknown event id, no matching device instance, no
\* matching entity) is dropped: no sensor state changes, no host event is
\* fired, no exception escapes and the response is 200.
C16_UnprocessablePostDropped ==
    [][(posted' # NoPost /\ Unprocessable(posted'.request))
         => /\ sensors' = sensors
            /\ bus' = bus
            /\ posted'.escaped = "none"
            /\ posted'.status = 200]_vars

\* C16 witness: with two devices set up and a sensor already on, an alert
\* from an address and a mac address of neither device has been answered 200
C16_Witness ==
    /\ posted # NoPost
    /\ Len(entries) = 2
    /\ posted.request.remote = "10.0.0.9" /\ posted.request.mac = "None"
    /\ posted.request.body.kind = "alert"
    /\ posted.logged = "ValueError" /\ posted.status = 200
    /\ bus # <<>>
    /\ \E id \in Registry : sensors[id] = "on"

\* the request() or request_bytes() call of the last step
Called == reply.sent \/ chunks.sent

LastCall == IF reply.sent THEN reply ELSE chunks

\* the last step handed a 401 to handle_exception, which dropped the scheme
Invalidated ==
    /\ handled.called /\ handled.ex = "ISAPIUnauthorizedError"
    /\ ~handled.expired_before

\* C17 as claimed: the WWW-Authenticate probe is sent only on the first call
\* of a session; a request() or request_bytes() call that follows another
\* call, no 401 having invalidated the scheme, sends no probe and is sent
\* with the scheme of the call before it.
C17_ProbeOnFirstCallOnly ==
    [][(Called /\ ~Invalidated /\ Called')
         => /\ ~LastCall'.probed
            /\ LastCall'.auth = LastCall.auth]_vars

\* C17 amended: a call made while a scheme is cached sends no probe and is
\* sent with that scheme; a call made while none is cached (the first call,
\* a call after a probe that was not answered 401 with a Basic or Digest
\* challenge, a call after a 401 dropped the scheme) sends the probe and is
\* sent with the scheme that probe's answer names, if any.
C17_ProbeWhileNoSchemeCached ==
    [][Called'
         => /\ LastCall'.probed <=> auth_method = NoAuth
            /\ auth_method # NoAuth => LastCall'.auth = auth_method
            /\ LastCall'.auth \in {auth_method, "Basic", "Digest"}
            /\ ~Invalidated' => auth_method' = LastCall'.auth]_vars

\* C17 witness: a request_bytes() call sent with the Basic scheme an earlier
\* call detected, without a probe
C17_Witness ==
    /\ chunks.sent /\ ~chunks.probed /\ chunks.auth = "Basic"
    /\ auth_method = "Basic"

\* the Streaming/channels reply of the call lists at most one channel: the
\* device is not multi-channel
SingleChannelReply ==
    call.op = "get_cameras" /\ Cardinality(call.channel_ids) <= 1

\* C18 as claimed: for a device that is no NVR and not multi-channel
\* get_cameras produces exactly one camera, with id 1 and connection type
\* Direct, built from the device info, whatever the Streaming/channels reply
\* holds; its events come from Event/triggers.
C18_StandaloneCamera ==
    (ret.applied /\ SingleChannelReply)
        => /\ Len(ret.value.cameras) = 1
           /\ ret.value.cameras[1].id = 1
           /\ ret.value.cameras[1].connection_type = CONNECTION_TYPE_DIRECT
           /\ ret.value.cameras[1].serial_no = SerialText(call.serial_no)
           /\ ~ret.value.is_multi_channel

\* C18 amended: for a device that is no NVR and not multi-channel
\* get_cameras produces one camera when the Streaming/channels reply lists a
\* channel, with the id and input port of that channel's videoInputChannelID,
\* connection type Direct and the serial number of the device info, and no
\* camera when the reply lists none or the request ended with a suppressed
\* error; is_multi_channel is false, so the events come from Event/triggers.
C18_CameraPerListedChannel ==
    (ret.applied /\ SingleChannelReply)
        => /\ ~ret.value.is_multi_channel
           /\ IF call.outcome = "result" /\ call.channel_ids # {}
              THEN /\ Len(ret.value.cameras) = 1
                   /\ ret.value.cameras[1].id \in call.channel_ids
                   /\ ret.value.cameras[1].input_port \in call.channel_ids
                   /\ ret.value.cameras[1].connection_type = CONNECTION_TYPE_DIRECT
                   /\ ret.value.cameras[1].serial_no = SerialText(call.serial_no)
              ELSE ret.value.cameras = <<>>

\* C18 witness: the one channel of the reply is not channel 1
C18_Witness ==
    /\ ret.applied /\ SingleChannelReply
    /\ call.outcome = "result" /\ call.channel_ids = {MaxChannel}
    /\ Len(ret.value.cameras) = 1
    /\ ret.value.cameras[1].id = MaxChannel

\* the RTSP entries with a port of the Security/adminAccesses reply
RtspEntries(items) ==
    {i \in DOMAIN items : items[i].protocol = "RTSP" /\ items[i].portNo # 0}

\* C19: with the force-RTSP-port option off, the RTSP port after the setup is
\* the port the device reports in Security/adminAccesses, whatever forced
\* port the entry data stores.
C19_DevicePortWhenNotForced ==
    (/\ ret.applied /\ call.op = "setup_rtsp_port"
     /\ ~call.config.force_rtsp_port
     /\ call.outcome = "result" /\ RtspEntries(call.items) # {})
        => \E i \in RtspEntries(call.items) :
               ret.value = StrValue(call.items[i].portNo)

\* the keys of a dotted path over the keys a, b, c
PathKeys(path) == SelectSeq(path, LAMBDA c : c # ".")

\* the value at the end of the keys, when every key before the last leads to
\* a mapping that holds the next one
RECURSIVE Found(_, _)
Found(d, keys) ==
    IF keys = <<>> THEN [found |-> TRUE, value |-> d]
    ELSE IF d.kind # "dict" THEN [found |-> FALSE, value |-> NoneV]
    ELSE IF Head(keys) \notin DOMAIN d.items THEN [found |-> FALSE, value |-> NoneV]
    ELSE Found(d.items[Head(keys)], Tail(keys))

\* C20: deep_get with an empty-list default returns a list: [] when a segment
\* of the path is missing or the path passes through a non-mapping, the
\* value itself when the value found is a list, and [v] when it is a single
\* non-list v.
C20_DeepGetListDefault ==
    (ret.applied /\ call.op = "deep_get" /\ call.default = ListV(<<>>))
        => LET at == Found(call.dictionary, PathKeys(call.path))
           IN  /\ ret.value.kind = "list"
               /\ ~at.found => ret.value = ListV(<<>>)
               /\ (at.found /\ at.value.kind = "list") => ret.value = at.value
               /\ (at.found /\ at.value.kind # "list")
                     => ret.value = ListV(<<at.value>>)

\* C20 witness: deep_get({"a": {"b": {"c": "x"}}}, "a.b.c", []) = ["x"]
C20_Witness ==
    /\ ret.applied /\ call.op = "deep_get" /\ call.default = ListV(<<>>)
    /\ call.path = <<"a", ".", "b", ".", "c">>
    /\ call.dictionary =
         DictV([a \in {"a"} |->
           DictV([b \in {"b"} |-> DictV([c \in {"c"} |-> StrV("x")])])])
    /\ ret.value = ListV(<<StrV("x")>>)

\* the positions of a method in the requests a call has sent
Positions(task, method) == {i \in DOMAIN task.log : task.log[i] = method}

\* the conditions under which set_event_enabled_state probes
ProbeDue(task) ==
    /\ task.is_enabled
    /\ task.channel_id # 0
    /\ capabilities.support_event_mutex_checking
    /\ task.event \in DOMAIN supported_events
    /\ supported_events[task.event].id \in DOMAIN EVENTS
    /\ EVENTS[supported_events[task.event].id].mutex

\* C21. Mutex probe gating: a set_event_enabled_state call has sent the
\* System/mutexFunction POST only when is_enabled is true, channel_id is not
\* 0, the device advertises mutex checking and the event is mutex-eligible
\* in the event table; a call in any other case, a disabling call among
\* them, has sent no POST; and the POST of a call is its first request,
\* before the GET and the PUT.
C21_MutexProbeGating ==
    \A t \in Tasks :
        /\ Positions(tasks[t], "POST") # {} => ProbeDue(tasks[t])
        /\ Positions(tasks[t], "POST") \subseteq {1}
        /\ (tasks[t].log # <<>> /\ ProbeDue(tasks[t]))
              => tasks[t].log[1] = "POST"

\* C21 witness: an enabling call on channel 1 of a device with mutex checking
\* has sent the probe, then the GET, then the PUT
C21_Witness ==
    \E t \in Tasks :
        /\ ProbeDue(tasks[t])
        /\ tasks[t].log = <<"POST", "GET", "PUT">>

\* the fields of an event document other than enabled
SameButEnabled(a, b) ==
    \A f \in DOMAIN a \ {"enabled"} : a[f] = b[f]

\* C22. When set_event_enabled_state changes the state, the body of the PUT
\* is the document the GET of the call returned with the enabled field of
\* the state node set to the requested value and every other field as
\* fetched; a PUT the device accepts stores that body under the event's URL
\* and leaves the other documents alone.
C22_PutBodyIsFetchedDocument ==
    [][\A t \in Tasks :
          LET url == supported_events[tasks[t].event].url
          IN  /\ (tasks[t].pc = "get" /\ tasks'[t].pc = "put")
                    => /\ tasks'[t].data.enabled = bool_to_str(tasks[t].is_enabled)
                       /\ tasks'[t].data.enabled # docs[url].enabled
                       /\ DOMAIN tasks'[t].data = DOMAIN docs[url]
                       /\ SameButEnabled(tasks'[t].data, docs[url])
              /\ (tasks[t].pc = "put" /\ tasks'[t].pc = "done" /\ docs' # docs)
                    => /\ docs'[url] = tasks[t].data
                       /\ \A other \in ToggleUrls \ {url} :
                              docs'[other] = docs[other]]_vars

\* C22 witness: a disabling call has sent its PUT and the device holds the
\* fetched document with enabled false and the sensitivity it had
C22_Witness ==
    \E t \in Tasks :
        /\ tasks[t].pc = "done" /\ tasks[t].log = <<"GET", "PUT">>
        /\ ~tasks[t].is_enabled /\ tasks[t].seen = "true"
        /\ tasks[t].result = "None"
        /\ docs[supported_events[tasks[t].event].url]
             = Doc(get_event_state_node(supported_events[tasks[t].event]),
                   "false")

\* the variants of a call that answer with a 2xx status, as stream ids in
\* the order of STREAM_TYPE
Answering(c) ==
    LET ok == {i \in DOMAIN STREAM_TYPE : IsSuccess(c.statuses[i])}
    IN  [k \in 1..Cardinality(ok) |->
            stream_id(c.channel_id,
                      STREAM_TYPE[CHOOSE i \in ok :
                          Cardinality({j \in ok : j < i}) = k - 1])]

StreamIdsOf(found) == [k \in DOMAIN found |-> found[k].id]

\* the first variant of a call whose reply makes request() raise
Raising(c) ==
    {i \in DOMAIN STREAM_TYPE :
        /\ IsException(request_outcome(c.statuses[i], c.pending))
        /\ \A j \in 1..(i - 1) :
               ~IsException(request_outcome(c.statuses[j], c.pending))}

\* C23 as stated: no reply of a variant aborts the enumeration: all four
\* variants are probed and every variant that answers 2xx is listed.
C23_NoReplyAbortsEnumeration ==
    (ret.applied /\ call.op = "get_camera_streams")
        => /\ ret.value.raised = "none"
           /\ ret.value.probed = Len(STREAM_TYPE)
           /\ StreamIdsOf(ret.value.streams) = Answering(call)

\* C23. Stream-variant enumeration: during initialization a non-2xx reply
\* other than 401 for one variant is skipped: all four variants are probed
\* and exactly the variants that answer 2xx are listed, in the order of
\* STREAM_TYPE.  A 401 at any time, and any non-2xx reply outside
\* initialization, raises out of get_camera_streams at that variant: no
\* later variant is probed and no list is returned.
C23_SuppressedReplySkipsVariant ==
    (ret.applied /\ call.op = "get_camera_streams")
        => /\ Raising(call) = {}
                => /\ ret.value.raised = "none"
                   /\ ret.value.probed = Len(STREAM_TYPE)
                   /\ StreamIdsOf(ret.value.streams) = Answering(call)
           /\ \A i \in Raising(call) :
                /\ ret.value.raised = request_outcome(call.statuses[i], call.pending)
                /\ ret.value.probed = i
           /\ (Raising(call) = {})
                <=> \A i \in DOMAIN STREAM_TYPE :
                       \/ IsSuccess(call.statuses[i])
                       \/ (call.pending /\ call.statuses[i] # UNAUTHORIZED)

\* C23 witness: during initialization the second variant answers 404 and the
\* others 200; the first, third and fourth variant are listed
C23_Witness ==
    /\ ret.applied /\ call.op = "get_camera_streams"
    /\ call.pending /\ call.channel_id = 1
    /\ call.statuses = <<200, 404, 200, 200>>
    /\ StreamIdsOf(ret.value.streams) = <<101, 103, 104>>
    /\ ret.value.raised = "none"

\* the document of the event a caller of the race enables
RaceDoc(t) == docs[ToggleEvents[RaceEvent(t)].url]

\* C24. Mutual exclusion under interleaving: on a device with mutex checking
\* whose channel 1 does not run motion detection and intrusion detection
\* together, no interleaving of set_event_enabled_state(1, motion detection,
\* True) and set_event_enabled_state(1, intrusion detection, True) leaves
\* both events enabled, and a call that finds the other event enabled ends
\* with an error and sends no PUT.
C24_ExclusiveUnderInterleaving ==
    /\ \E t \in RaceTasks : RaceDoc(t).enabled = "false"
    /\ \A t \in RaceTasks :
          tasks[t].mutex_list # <<>>
             => tasks[t].pc = "done" /\ tasks[t].result # "None"
                /\ ~HasPut(tasks[t])

\* the ids of the items of a poll that satisfy a test, in the poll's order
ItemIds(items, Test(_)) ==
    LET kept == SelectSeq([i \in DOMAIN items |-> i], Test)
    IN  [k \in DOMAIN kept |-> items[kept[k]].id]

DataIds(data) == [k \in DOMAIN data |-> data[k].id]

\* what request() makes of the reply to the i-th item of the poll called
PollOutcome(i) == request_outcome(call.statuses[i], call.pending)

\* the parts of C25 that do not depend on the storage list: the poll goes
\* through all its items whatever fails, asks for every item but the events
\* marked disabled, and returns a state for every item asked whose request
\* did not raise
PollGoesOn ==
    LET items == call.items
        Due(i) == ~items[i].disabled
        Gathered(i) == /\ ~items[i].disabled /\ items[i].kind # "storage"
                       /\ ~IsException(PollOutcome(i))
        Failing(i) == ~items[i].disabled /\ IsException(PollOutcome(i))
    IN  /\ ret.value.requested = ItemIds(items, Due)
        /\ DataIds(ret.value.data) = ItemIds(items, Gathered)
        /\ Len(ret.value.handled) = Len(SelectSeq([i \in DOMAIN items |-> i], Failing))
        /\ \A k \in DOMAIN ret.value.data :
               ret.value.data[k].value
                  = \E i \in DOMAIN items :
                        /\ items[i].id = ret.value.data[k].id
                        /\ PollOutcome(i) = "result"

\* C25 as stated: the poll is not aborted by a failing item, and the storage
\* list keeps its previous value whenever its fetch is answered with an
\* error status.
C25_StorageKeptOnEveryFailure ==
    (ret.applied /\ call.op = "events_poll")
        => /\ PollGoesOn
           /\ ~IsSuccess(call.statuses[Len(call.items)])
                 => ret.value.storage = call.storage

\* C25. Poll isolation: an exception while fetching the state of one event,
\* one output port or the storage list goes to handle_exception and the poll
\* goes on: every remaining item is fetched, the poll returns the states it
\* gathered, and no request is sent for an event marked disabled.  The
\* storage list keeps its previous value when its fetch raises; when
\* request() suppresses the error of the fetch during initialization the
\* storage list becomes empty, and an event or port fetched that way is
\* reported as off.
C25_PollIsolation ==
    (ret.applied /\ call.op = "events_poll")
        => LET last == Len(call.items)
           IN  /\ PollGoesOn
               /\ IsException(PollOutcome(last))
                     => ret.value.storage = call.storage
               /\ PollOutcome(last) = "empty" => ret.value.storage = <<>>
               /\ PollOutcome(last) = "result"
                     => ret.value.storage = DeviceStorage

\* C25 witness: outside initialization the first event answers 404 and the
\* storage fetch 401; the second event is still fetched and the storage list
\* is the one held before
C25_Witness ==
    /\ ret.applied /\ call.op = "events_poll" /\ ~call.pending
    /\ Len(call.items) = 3
    /\ call.statuses = <<404, 200, UNAUTHORIZED>>
    /\ call.storage = <<"hdd1">> /\ ret.value.storage = <<"hdd1">>
    /\ ret.value.data = <<[id |-> "switch.ds_1_io", value |-> TRUE]>>
    /\ ret.value.handled = <<"HTTPStatusError", "ISAPIUnauthorizedError">>

\* the cameras of the model have pairwise distinct serial numbers
DistinctSerials ==
    \A i, j \in DOMAIN cameras :
        i # j => cameras[i].serial_no # cameras[j].serial_no

\* the serial number get_cameras builds for a proxied camera
Synthesized(camera) ==
    SerialText(device_info.serial_no) \o "_HIKVISION_" \o ToString(camera.id)

\* C26 as stated: in every topology the cameras of the model have pairwise
\* distinct serial numbers.
C26_DistinctSerialsEveryTopology == DistinctSerials

\* C26. Camera identity: the cameras of an NVR/DVR (proxied and analog) and
\* the camera of a single-channel device have pairwise distinct serial
\* numbers; a proxied camera carries the serial number its source reports or,
\* when that is missing or carried by a camera enumerated before it, the one
\* built from the device serial, the proxy protocol and the channel id.  The
\* cameras of a multi-channel device all carry the device's serial number.
\* (hw_pc = "events" is the state get_cameras leaves.)
C26_CameraIdentity ==
    /\ ~capabilities.is_multi_channel => DistinctSerials
    /\ (hw_pc = "events" /\ capabilities.is_multi_channel)
          => \A i \in DOMAIN cameras :
                 cameras[i].serial_no = SerialText(device_info.serial_no)
    /\ \A i \in DOMAIN cameras :
          (hw_pc = "events"
             /\ cameras[i].connection_type = CONNECTION_TYPE_PROXIED)
             => \/ cameras[i].serial_no = Synthesized(cameras[i])
                \/ /\ cameras[i].serial_no \in {"CAM-A", "CAM-B"}
                   /\ \A j \in 1..(i - 1) :
                          cameras[j].serial_no # cameras[i].serial_no

\* C26 witness: an NVR whose two proxied cameras report the same serial
\* number holds the second one under the synthesized serial number
C26_Witness ==
    /\ hw_pc = "events" /\ device_info.is_nvr /\ Len(cameras) >= 2
    /\ cameras[1].serial_no = "CAM-A"
    /\ cameras[2].connection_type = CONNECTION_TYPE_PROXIED
    /\ cameras[2].serial_no = Synthesized(cameras[2])

\* C27. Event identity: after discovery and init_coordinators the unique_id
\* values of the EventInfo entries of the device (device-level events and
\* all cameras' events) are pairwise distinct, for every trigger list the
\* device reports, with several aliases of one event on a channel and after
\* the scene-change and multi-channel gap filling.
C27_DistinctEventIds ==
    hw_pc = "running"
        => \A i, j \in HeldEvents :
               i # j => supported_events[i].unique_id
                          # supported_events[j].unique_id

\* the alert of an event: the event's id, channel id and I/O port id
AlertOf(event) == AlertInfo(event.channel_id, event.io_port_id, event.id)

\* C28. Alert-to-sensor matching: for every EventInfo that discovery attached
\* to a camera or to the device with unique_id u, an alert carrying the
\* event's id, its channel id (as update_alert_channel leaves it) and its
\* I/O port id makes trigger_sensor look up binary_sensor.u, on a device
\* that holds the serial number it had at discovery.
C28_AlertMatchesSensor ==
    (hw_pc = "running" /\ device_info.serial_no # NoText)
        => \A i \in HeldEvents :
               /\ sensor_unique_id(device_info.serial_no,
                                   AlertOf(supported_events[i]))
                     = "binary_sensor." \o supported_events[i].unique_id
               /\ update_alert_channel(cameras, supported_events[i].channel_id)
                     = supported_events[i].channel_id

\* C28 witness: the device holds an alarm input attached to the device and a
\* motion detection attached to camera 1, and the alerts of both resolve to
\* their sensors
C28_Witness ==
    /\ hw_pc = "running" /\ device_info.serial_no # NoText
    /\ \E i, j \in HeldEvents :
          /\ supported_events[i].id = EVENT_IO
          /\ supported_events[i].io_port_id = 1
          /\ supported_events[j].id = "motiondetection"
          /\ supported_events[j].channel_id = 1
          /\ sensor_unique_id(device_info.serial_no, AlertOf(supported_events[i]))
                = "binary_sensor.ds_7608ni_1_io"
          /\ sensor_unique_id(device_info.serial_no, AlertOf(supported_events[j]))
                = "binary_sensor.ds_7608ni_1_motiondetection"

\* C29. Re-authentication liveness: on a device that answers every request
\* with 401, under fair scheduling of the polling loops the host
\* re-authentication flow is eventually started, whatever the number of
\* items one poll fetches and whether or not the device has a secondary
\* coordinator.
C29_ReauthEventuallyStarted == <>reauth_started

\* C30: set_alarm_server is idempotent: once it has been applied to the
\* device, a later call with the same base_url and path sends no PUT
C30_SetAlarmServerIdempotent ==
    (call.op = "set_alarm_server" /\ ret.applied)
        => \A i \in 2..Len(ret.value.sent) : ~ret.value.sent[i]

====
